---------------------------- MODULE Spec2Model ----------------------------
(***************************************************************************)
(* A model of gars_field: the three grid-cell classes (GARSGrid,           *)
(* EDGARSGrid, GEDGARSGrid) and the enumeration engine GARSField.          *)
(*                                                                         *)
(* Representation.                                                         *)
(*  - A Python str is a sequence of one-character strings, so that         *)
(*    slicing, indexing, formatting and parsing are computed.              *)
(*  - Python None is the empty sequence; an Optional[int] is <<>> or <<n>>.*)
(*    A regular-expression group is None or a non-empty str.               *)
(*  - A coordinate is an integer number of units, Scale units to the       *)
(*    degree and MinUnits units to the arc minute; the arithmetic of the   *)
(*    code is carried out exactly on these (the rounding of Python floats  *)
(*    is not modelled).  The two float literals of the code that stand     *)
(*    for "just below" (179.9999999999 and 179.999999999999) are the       *)
(*    largest coordinate below the bound, one unit under it.               *)
(*  - A geometry is a record with shapely's geom_type and the list of its  *)
(*    parts, each an axis-aligned closed rectangle <<minx,miny,maxx,maxy>>,*)
(*    which is also how a cell's polygon (shapely.geometry.box) is kept.   *)
(*  - A raised ValueError is a result record with raised = TRUE.           *)
(***************************************************************************)
EXTENDS Integers, Sequences, FiniteSets, TLC

None == <<>>

\* units per arc minute: the resolution of the coordinate grid of the model
MinUnits == 2

\* units per degree
Scale == 60 * MinUnits

(***************************************************************************)
(* Characters and strings                                                  *)
(***************************************************************************)
DigitChars == <<"0", "1", "2", "3", "4", "5", "6", "7", "8", "9">>

UpperChars == <<"A", "B", "C", "D", "E", "F", "G", "H", "I", "J", "K", "L", "M",
                "N", "O", "P", "Q", "R", "S", "T", "U", "V", "W", "X", "Y", "Z">>

\* str.index of a character that occurs in the string, 0-based
Index(str, c) == (CHOOSE i \in 1..Len(str) : str[i] = c) - 1

IsIn(c, str) == \E i \in 1..Len(str) : str[i] = c

\* regular-expression class \d (of the ASCII characters)
IsDigit(c) == IsIn(c, DigitChars)

\* ord(c) of the characters of the model: line feed, digits, capital letters
Ord(c) ==
  IF c = "\n" THEN 10
  ELSE IF IsDigit(c) THEN 48 + Index(DigitChars, c)
  ELSE 65 + Index(UpperChars, c)

\* regular-expression class [lo-hi]
InRange(c, lo, hi) ==
  /\ c # "\n"
  /\ Ord(lo) <= Ord(c)
  /\ Ord(c) <= Ord(hi)

\* s[:n]
Prefix(s, n) == SubSeq(s, 1, IF n < Len(s) THEN n ELSE Len(s))

\* s[a:b] with 0 <= a <= b <= len(s)
Slice(s, a, b) == SubSeq(s, a + 1, b)

\* int(s) of a string of digits
RECURSIVE ParseInt(_)
ParseInt(s) ==
  IF Len(s) = 0 THEN 0
  ELSE 10 * ParseInt(SubSeq(s, 1, Len(s) - 1)) + Index(DigitChars, s[Len(s)])

\* str(n) of n >= 0
RECURSIVE Str(_)
Str(n) ==
  IF n < 10 THEN <<DigitChars[n + 1]>>
  ELSE Str(n \div 10) \o <<DigitChars[(n % 10) + 1]>>

\* f"{n:0wd}" of n >= 0: zero-padded to at least w characters
RECURSIVE ZeroPad(_, _)
ZeroPad(s, w) == IF Len(s) >= w THEN s ELSE ZeroPad(<<"0">> \o s, w)

Format0(n, w) == ZeroPad(Str(n), w)

\* the "$" of a pattern matched with re.match: the end of the string, or just
\* before a line feed that ends the string
AtEnd(s, pos) ==
  \/ pos = Len(s) + 1
  \/ /\ pos = Len(s)
     /\ s[pos] = "\n"

(***************************************************************************)
(* Results                                                                 *)
(***************************************************************************)
ValueError == [raised |-> TRUE, cell |-> None]

Returns(c) == [raised |-> FALSE, cell |-> c]

(***************************************************************************)
(* GARSGridBase                                                            *)
(***************************************************************************)
GARS_VALID_RESOLUTIONS == {1, 5, 15, 30}

EDGARS_VALID_RESOLUTIONS == {1, 3, 6}

GEDGARS_VALID_RESOLUTIONS == {30, 60}

VALID_RESOLUTIONS(cls) ==
  CASE cls = "GARSGrid" -> GARS_VALID_RESOLUTIONS
    [] cls = "EDGARSGrid" -> EDGARS_VALID_RESOLUTIONS
    [] cls = "GEDGARSGrid" -> GEDGARS_VALID_RESOLUTIONS

\* a validate_resolution that lets every resolution through
validate_resolution_Always(cls, resolution) == TRUE

\* validate_resolution: TRUE when it returns, FALSE when it raises ValueError
validate_resolution(cls, resolution) == resolution \in VALID_RESOLUTIONS(cls)

(***************************************************************************)
(* GARSGrid                                                                *)
(***************************************************************************)
GARS_LETTERS == <<"A", "B", "C", "D", "E", "F", "G", "H", "J", "K", "L", "M",
                  "N", "P", "Q", "R", "S", "T", "U", "V", "W", "X", "Y", "Z">>

\* [A-HJ-NP-Q]
GARS_Letter1Class(c) ==
  InRange(c, "A", "H") \/ InRange(c, "J", "N") \/ InRange(c, "P", "Q")

\* [A-HJ-NP-Z]
GARS_Letter2Class(c) ==
  InRange(c, "A", "H") \/ InRange(c, "J", "N") \/ InRange(c, "P", "Z")

\* the group quadrant_30min at the start of s: \d{3}[A-HJ-NP-Q][A-HJ-NP-Z]
GARS_Match30min(s) ==
  /\ Len(s) >= 5
  /\ IsDigit(s[1])
  /\ IsDigit(s[2])
  /\ IsDigit(s[3])
  /\ GARS_Letter1Class(s[4])
  /\ GARS_Letter2Class(s[5])

GARS_Match15min(s) == Len(s) >= 6 /\ InRange(s[6], "1", "4")

GARS_Match5min(s) == Len(s) >= 7 /\ InRange(s[7], "1", "9")

GARS_Match1min(s) == Len(s) >= 9 /\ IsDigit(s[8]) /\ IsDigit(s[9])

GARS_Groups(s, n15, n5, n1) ==
  [matched |-> TRUE,
   quadrant_30min |-> Slice(s, 0, 5),
   quadrant_15min |-> Slice(s, 5, 5 + n15),
   quadrant_5min |-> Slice(s, 6, 6 + n5),
   quadrant_1min |-> Slice(s, 7, 7 + n1)]

\* RE_PATTERN.match(s): the optional groups are tried longest first, and a
\* shorter alternative is taken when the rest of the string is not the end
GARS_RE_PATTERN(s) ==
  IF ~GARS_Match30min(s) THEN [matched |-> FALSE]
  ELSE IF GARS_Match15min(s) /\ GARS_Match5min(s) /\ GARS_Match1min(s)
          /\ AtEnd(s, 10)
    THEN GARS_Groups(s, 1, 1, 2)
  ELSE IF GARS_Match15min(s) /\ GARS_Match5min(s) /\ AtEnd(s, 8)
    THEN GARS_Groups(s, 1, 1, 0)
  ELSE IF GARS_Match15min(s) /\ AtEnd(s, 7)
    THEN GARS_Groups(s, 1, 0, 0)
  ELSE IF AtEnd(s, 6)
    THEN GARS_Groups(s, 0, 0, 0)
  ELSE [matched |-> FALSE]

\* GARS_Truncate that cuts nothing: C7 tells the two apart
GARS_Truncate_Nothing(gars_id, max_resolution) == gars_id

\* the truncation of __init__: gars_id[:5], [:6], [:7] for 30, 15, 5
GARS_Truncate(gars_id, max_resolution) ==
  IF max_resolution = <<30>> THEN Prefix(gars_id, 5)
  ELSE IF max_resolution = <<15>> THEN Prefix(gars_id, 6)
  ELSE IF max_resolution = <<5>> THEN Prefix(gars_id, 7)
  ELSE gars_id

\* GARS_Resolution without the 1-minute group: C6 tells the two apart
GARS_Resolution_NoFinest(m) ==
  IF m.quadrant_5min # None THEN 5
  ELSE IF m.quadrant_15min # None THEN 15
  ELSE 30

\* the resolution __init__ determines from the groups
GARS_Resolution(m) ==
  IF m.quadrant_1min # None THEN 1
  ELSE IF m.quadrant_5min # None THEN 5
  ELSE IF m.quadrant_15min # None THEN 15
  ELSE 30

\* GARSGrid(gars_id, max_resolution)
GARSGrid(gars_id, max_resolution) ==
  IF max_resolution # None /\ ~validate_resolution("GARSGrid", max_resolution[1])
    THEN ValueError
  ELSE
    LET id == GARS_Truncate(gars_id, max_resolution)
        m == GARS_RE_PATTERN(id)
    IN  IF ~m.matched THEN ValueError
        ELSE
          LET lon_num == ParseInt(Slice(m.quadrant_30min, 0, 3))
          IN  IF lon_num < 1 \/ lon_num > 720 THEN ValueError
              ELSE IF /\ m.quadrant_1min # None
                      /\ \/ ParseInt(m.quadrant_1min) < 1
                         \/ ParseInt(m.quadrant_1min) > 25
                THEN ValueError
              ELSE Returns([cls |-> "GARSGrid",
                            gars_id |-> id,
                            quadrant_1min |-> m.quadrant_1min,
                            quadrant_5min |-> m.quadrant_5min,
                            quadrant_15min |-> m.quadrant_15min,
                            quadrant_30min |-> m.quadrant_30min,
                            resolution |-> GARS_Resolution(m),
                            _polygon |-> None,
                            _utm_epsg |-> None])

\* index_from_degrees that never inverts: rows numbered from the south
index_from_degrees_FromSouth(num_degrees, inverse) ==
  <<((num_degrees % (30 * MinUnits)) \div (15 * MinUnits)) + 1,
    ((num_degrees % (15 * MinUnits)) \div (5 * MinUnits)) + 1,
    ((num_degrees % (5 * MinUnits)) \div MinUnits) + 1>>

\* index_from_degrees of from_latlon: num_degrees in units
index_from_degrees(num_degrees, inverse) ==
  LET minutes == num_degrees % Scale
      minutes_30 == minutes % (30 * MinUnits)
      minutes_15 == minutes % (15 * MinUnits)
      minutes_5 == minutes % (5 * MinUnits)
      idx_15 == (minutes_30 \div (15 * MinUnits)) + 1
      idx_5 == (minutes_15 \div (5 * MinUnits)) + 1
      idx_1 == (minutes_5 \div MinUnits) + 1
  IN  IF inverse THEN <<3 - idx_15, 4 - idx_5, 6 - idx_1>>
      ELSE <<idx_15, idx_5, idx_1>>

\* longitude from (-180, 180) to (0, 360), 180 itself to 360
NormLongitude(longitude) ==
  IF longitude # 180 * Scale THEN (longitude + 180 * Scale) % (360 * Scale)
  ELSE 360 * Scale

\* NormLatitude without the case of 90 itself, which wraps to 0: C2 tells the
\* two apart
NormLatitude_Wrapping(latitude) == (latitude + 90 * Scale) % (180 * Scale)

\* latitude from (-90, 90) to (0, 180), 90 itself to 179.9999999999
NormLatitude(latitude) ==
  IF latitude # 90 * Scale THEN (latitude + 90 * Scale) % (180 * Scale)
  ELSE 180 * Scale - 1

\* the identifier from_latlon builds before it calls the constructor
GARS_IdFromLatLon(latitude, longitude, resolution) ==
  LET lon == NormLongitude(longitude)
      lat == NormLatitude(latitude)
      quadrant_30min ==
        Format0(((2 * lon) \div Scale) + 1, 3)
          \o <<GARS_LETTERS[((2 * lat) \div (24 * Scale)) + 1]>>
          \o <<GARS_LETTERS[(((2 * lat) \div Scale) % 24) + 1]>>
      lon_idx == index_from_degrees(lon, FALSE)
      lat_idx == index_from_degrees(lat, TRUE)
      quadrant_15min ==
        IF resolution < 30 THEN Str((lat_idx[1] - 1) * 2 + lon_idx[1]) ELSE <<>>
      quadrant_5min ==
        IF resolution < 15 THEN Str((lat_idx[2] - 1) * 3 + lon_idx[2]) ELSE <<>>
      quadrant_1min ==
        IF resolution < 5 THEN Format0((lat_idx[3] - 1) * 5 + lon_idx[3], 2)
        ELSE <<>>
  IN  quadrant_30min \o quadrant_15min \o quadrant_5min \o quadrant_1min

\* GARSGrid.from_latlon(latitude, longitude, resolution)
GARS_from_latlon(latitude, longitude, resolution) ==
  IF ~validate_resolution("GARSGrid", resolution) THEN ValueError
  ELSE GARSGrid(GARS_IdFromLatLon(latitude, longitude, resolution),
                <<resolution>>)

\* _15_minute_delta with the rows counted from the south: C19 tells the two
\* apart
_15_minute_delta_FromSouth(self) ==
  IF self.quadrant_15min = None THEN <<0, 0>>
  ELSE
    LET quad_15min == ParseInt(self.quadrant_15min)
    IN  <<IF quad_15min \in {2, 4} THEN 15 ELSE 0,
          IF quad_15min \in {3, 4} THEN 15 ELSE 0>>

\* <<lon_minutes, lat_minutes>>
_15_minute_delta(self) ==
  IF self.quadrant_15min = None THEN <<0, 0>>
  ELSE
    LET quad_15min == ParseInt(self.quadrant_15min)
    IN  <<IF quad_15min \in {2, 4} THEN 15 ELSE 0,
          IF quad_15min \in {1, 2} THEN 15 ELSE 0>>

\* _5_minute_delta with the third column on the second: C5 tells the two apart
_5_minute_delta_TwoColumns(self) ==
  IF self.quadrant_5min = None THEN <<0, 0>>
  ELSE
    LET quad_5min == ParseInt(self.quadrant_5min)
    IN  <<IF quad_5min \in {2, 5, 8, 3, 6, 9} THEN 5 ELSE 0,
          IF quad_5min \in {4, 5, 6} THEN 5
          ELSE IF quad_5min \in {1, 2, 3} THEN 10
          ELSE 0>>

_5_minute_delta(self) ==
  IF self.quadrant_5min = None THEN <<0, 0>>
  ELSE
    LET quad_5min == ParseInt(self.quadrant_5min)
    IN  <<IF quad_5min \in {2, 5, 8} THEN 5
          ELSE IF quad_5min \in {3, 6, 9} THEN 10
          ELSE 0,
          IF quad_5min \in {4, 5, 6} THEN 5
          ELSE IF quad_5min \in {1, 2, 3} THEN 10
          ELSE 0>>

_1_minute_delta(self) ==
  IF self.quadrant_1min = None THEN <<0, 0>>
  ELSE
    LET quad_1min == ParseInt(self.quadrant_1min)
    IN  <<IF quad_1min \in {2, 7, 12, 17, 22} THEN 1
          ELSE IF quad_1min \in {3, 8, 13, 18, 23} THEN 2
          ELSE IF quad_1min \in {4, 9, 14, 19, 24} THEN 3
          ELSE IF quad_1min \in {5, 10, 15, 20, 25} THEN 4
          ELSE 0,
          IF quad_1min <= 5 THEN 4
          ELSE IF 6 <= quad_1min /\ quad_1min <= 10 THEN 3
          ELSE IF 11 <= quad_1min /\ quad_1min <= 15 THEN 2
          ELSE IF 16 <= quad_1min /\ quad_1min <= 20 THEN 1
          ELSE 0>>

\* the box the polygon property computes: <<minx, miny, maxx, maxy>>
GARS_polygon(self) ==
  LET longitude ==
        (ParseInt(Slice(self.quadrant_30min, 0, 3)) - 1) * (Scale \div 2)
          - 180 * Scale
      latitude ==
        (-90 * Scale) + Index(GARS_LETTERS, self.quadrant_30min[4]) * 12 * Scale
          + Index(GARS_LETTERS, self.quadrant_30min[5]) * (Scale \div 2)
      d15 == _15_minute_delta(self)
      d5 == _5_minute_delta(self)
      d1 == _1_minute_delta(self)
      ll_latitude == latitude + (d15[2] + d5[2] + d1[2]) * MinUnits
      ll_longitude == longitude + (d15[1] + d5[1] + d1[1]) * MinUnits
  IN  <<ll_longitude, ll_latitude,
        ll_longitude + self.resolution * MinUnits,
        ll_latitude + self.resolution * MinUnits>>

(***************************************************************************)
(* EDGARSGrid                                                              *)
(***************************************************************************)
EDGARS_LETTERS == <<"A", "B", "C", "D", "E", "F", "G", "H", "J", "K", "L", "M",
                    "N", "P", "Q", "R", "S", "T", "U", "V">>

\* [A-HJ-NP-V]
EDGARS_Letter2Class(c) ==
  InRange(c, "A", "H") \/ InRange(c, "J", "N") \/ InRange(c, "P", "V")

\* the group quadrant_6deg after the literal D: \d{2}[A-B][A-HJ-NP-V]
EDGARS_Match6deg(s) ==
  /\ Len(s) >= 5
  /\ s[1] = "D"
  /\ IsDigit(s[2])
  /\ IsDigit(s[3])
  /\ InRange(s[4], "A", "B")
  /\ EDGARS_Letter2Class(s[5])

\* (?P<quadrant_3deg>[1-9])
EDGARS_Match3deg(s) == Len(s) >= 6 /\ InRange(s[6], "1", "9")

\* (?P<quadrant_1deg>[1-9])
EDGARS_Match1deg(s) == Len(s) >= 7 /\ InRange(s[7], "1", "9")

EDGARS_Groups(s, n3, n1) ==
  [matched |-> TRUE,
   quadrant_6deg |-> Slice(s, 1, 5),
   quadrant_3deg |-> Slice(s, 5, 5 + n3),
   quadrant_1deg |-> Slice(s, 6, 6 + n1)]

\* RE_PATTERN.match(s)
EDGARS_RE_PATTERN(s) ==
  IF ~EDGARS_Match6deg(s) THEN [matched |-> FALSE]
  ELSE IF EDGARS_Match3deg(s) /\ EDGARS_Match1deg(s) /\ AtEnd(s, 8)
    THEN EDGARS_Groups(s, 1, 1)
  ELSE IF EDGARS_Match3deg(s) /\ AtEnd(s, 7)
    THEN EDGARS_Groups(s, 1, 0)
  ELSE IF AtEnd(s, 6)
    THEN EDGARS_Groups(s, 0, 0)
  ELSE [matched |-> FALSE]

\* the truncation of __init__: gars_id[:5], [:6] for 6, 3
EDGARS_Truncate(gars_id, max_resolution) ==
  IF max_resolution = <<6>> THEN Prefix(gars_id, 5)
  ELSE IF max_resolution = <<3>> THEN Prefix(gars_id, 6)
  ELSE gars_id

EDGARS_Resolution(m) ==
  IF m.quadrant_1deg # None THEN 1
  ELSE IF m.quadrant_3deg # None THEN 3
  ELSE 6

\* the check of the longitude number: TRUE when __init__ raises
EDGARS_LonNumInvalid(lon_num) == lon_num < 1 \/ lon_num > 60

\* EDGARS_LatLettersInvalid that lets every pair of letters pass: C10 tells
\* the two apart
EDGARS_LatLettersInvalid_Never(quadrant_6deg) == FALSE

\* the check of the latitude letters: TRUE when __init__ raises
EDGARS_LatLettersInvalid(quadrant_6deg) ==
  quadrant_6deg[3] = "B" /\ Ord(quadrant_6deg[4]) > Ord("K")

\* EDGARSGrid(gars_id, max_resolution)
EDGARSGrid(gars_id, max_resolution) ==
  IF max_resolution # None /\ ~validate_resolution("EDGARSGrid", max_resolution[1])
    THEN ValueError
  ELSE
    LET id == EDGARS_Truncate(gars_id, max_resolution)
        m == EDGARS_RE_PATTERN(id)
    IN  IF ~m.matched THEN ValueError
        ELSE IF EDGARS_LonNumInvalid(ParseInt(Slice(m.quadrant_6deg, 0, 2)))
          THEN ValueError
        ELSE IF EDGARS_LatLettersInvalid(m.quadrant_6deg) THEN ValueError
        ELSE Returns([cls |-> "EDGARSGrid",
                      gars_id |-> id,
                      quadrant_1deg |-> m.quadrant_1deg,
                      quadrant_3deg |-> m.quadrant_3deg,
                      quadrant_6deg |-> m.quadrant_6deg,
                      resolution |-> EDGARS_Resolution(m),
                      _polygon |-> None,
                      _utm_epsg |-> None])

\* the identifier from_latlon builds before it calls the constructor
EDGARS_IdFromLatLon(latitude, longitude, resolution) ==
  LET lon == NormLongitude(longitude)
      lat == NormLatitude(latitude)
      quadrant_6deg ==
        Format0((lon \div (6 * Scale)) + 1, 2)
          \o <<EDGARS_LETTERS[(lat \div (20 * 6 * Scale)) + 1]>>
          \o <<EDGARS_LETTERS[((lat \div (6 * Scale)) % 20) + 1]>>
      lon_3deg_idx == ((lon % (6 * Scale)) \div (3 * Scale)) + 1
      lat_3deg_idx == 2 - ((lat % (6 * Scale)) \div (3 * Scale))
      lon_1deg_idx == ((lon % (3 * Scale)) \div Scale) + 1
      lat_1deg_idx == 3 - ((lat % (3 * Scale)) \div Scale)
      quadrant_3deg ==
        IF resolution < 6 THEN Str((lat_3deg_idx - 1) * 2 + lon_3deg_idx)
        ELSE <<>>
      quadrant_1deg ==
        IF resolution < 3 THEN Str((lat_1deg_idx - 1) * 3 + lon_1deg_idx)
        ELSE <<>>
  IN  <<"D">> \o quadrant_6deg \o quadrant_3deg \o quadrant_1deg

\* EDGARSGrid.from_latlon(latitude, longitude, resolution)
EDGARS_from_latlon(latitude, longitude, resolution) ==
  IF ~validate_resolution("EDGARSGrid", resolution) THEN ValueError
  ELSE EDGARSGrid(EDGARS_IdFromLatLon(latitude, longitude, resolution),
                  <<resolution>>)

\* the 3 degree delta of polygon: <<longitude, latitude>> in degrees
EDGARS_3degDelta(self) ==
  IF self.quadrant_3deg = None THEN <<0, 0>>
  ELSE
    LET quad_3deg == ParseInt(self.quadrant_3deg)
    IN  <<IF quad_3deg \in {2, 4} THEN 3 ELSE 0,
          IF quad_3deg \in {1, 2} THEN 3 ELSE 0>>

\* the 1 degree delta with the rows counted from the south: C20 tells the two
\* apart
EDGARS_1degDelta_FromSouth(self) ==
  IF self.quadrant_1deg = None THEN <<0, 0>>
  ELSE
    LET quad_1deg == ParseInt(self.quadrant_1deg)
    IN  <<IF quad_1deg \in {2, 5, 8} THEN 1
          ELSE IF quad_1deg \in {3, 6, 9} THEN 2
          ELSE 0,
          IF quad_1deg \in {4, 5, 6} THEN 1
          ELSE IF quad_1deg \in {7, 8, 9} THEN 2
          ELSE 0>>

\* the 1 degree delta of polygon: <<longitude, latitude>> in degrees
EDGARS_1degDelta(self) ==
  IF self.quadrant_1deg = None THEN <<0, 0>>
  ELSE
    LET quad_1deg == ParseInt(self.quadrant_1deg)
    IN  <<IF quad_1deg \in {2, 5, 8} THEN 1
          ELSE IF quad_1deg \in {3, 6, 9} THEN 2
          ELSE 0,
          IF quad_1deg \in {4, 5, 6} THEN 1
          ELSE IF quad_1deg \in {1, 2, 3} THEN 2
          ELSE 0>>

\* the box the polygon property computes: <<minx, miny, maxx, maxy>>
EDGARS_polygon(self) ==
  LET d3 == EDGARS_3degDelta(self)
      d1 == EDGARS_1degDelta(self)
      longitude ==
        ((ParseInt(Slice(self.quadrant_6deg, 0, 2)) - 1) * 6 - 180
           + d3[1] + d1[1]) * Scale
      latitude ==
        (-90 + Index(EDGARS_LETTERS, self.quadrant_6deg[3]) * 120
           + Index(EDGARS_LETTERS, self.quadrant_6deg[4]) * 6
           + d3[2] + d1[2]) * Scale
  IN  <<longitude, latitude,
        longitude + self.resolution * Scale,
        latitude + self.resolution * Scale>>

(***************************************************************************)
(* GEDGARSGrid                                                             *)
(***************************************************************************)
GEDGARS_LETTERS == <<"A", "B", "C">>

\* the group quadrant_60deg after the literal GD: \d{1}[A-C]
GEDGARS_Match60deg(s) ==
  /\ Len(s) >= 4
  /\ s[1] = "G"
  /\ s[2] = "D"
  /\ IsDigit(s[3])
  /\ InRange(s[4], "A", "C")

\* (?P<quadrant_30deg>[1-4])
GEDGARS_Match30deg(s) == Len(s) >= 5 /\ InRange(s[5], "1", "4")

GEDGARS_Groups(s, n30) ==
  [matched |-> TRUE,
   quadrant_60deg |-> Slice(s, 2, 4),
   quadrant_30deg |-> Slice(s, 4, 4 + n30)]

\* RE_PATTERN.match(s)
GEDGARS_RE_PATTERN(s) ==
  IF ~GEDGARS_Match60deg(s) THEN [matched |-> FALSE]
  ELSE IF GEDGARS_Match30deg(s) /\ AtEnd(s, 6)
    THEN GEDGARS_Groups(s, 1)
  ELSE IF AtEnd(s, 5)
    THEN GEDGARS_Groups(s, 0)
  ELSE [matched |-> FALSE]

\* the truncation of __init__: gars_id[:4] for 60
GEDGARS_Truncate(gars_id, max_resolution) ==
  IF max_resolution = <<60>> THEN Prefix(gars_id, 4) ELSE gars_id

GEDGARS_Resolution(m) == IF m.quadrant_30deg # None THEN 30 ELSE 60

\* the check of the longitude number: TRUE when __init__ raises
GEDGARS_LonNumInvalid(lon_num) == lon_num < 1 \/ lon_num > 6

\* GEDGARSGrid(gars_id, max_resolution)
GEDGARSGrid(gars_id, max_resolution) ==
  IF max_resolution # None /\ ~validate_resolution("GEDGARSGrid", max_resolution[1])
    THEN ValueError
  ELSE
    LET id == GEDGARS_Truncate(gars_id, max_resolution)
        m == GEDGARS_RE_PATTERN(id)
    IN  IF ~m.matched THEN ValueError
        ELSE IF GEDGARS_LonNumInvalid(ParseInt(Slice(m.quadrant_60deg, 0, 1)))
          THEN ValueError
        ELSE Returns([cls |-> "GEDGARSGrid",
                      gars_id |-> id,
                      quadrant_60deg |-> m.quadrant_60deg,
                      quadrant_30deg |-> m.quadrant_30deg,
                      resolution |-> GEDGARS_Resolution(m),
                      _polygon |-> None,
                      _utm_epsg |-> None])

\* the identifier from_latlon builds before it calls the constructor
GEDGARS_IdFromLatLon(latitude, longitude, resolution) ==
  LET lon == NormLongitude(longitude)
      lat == NormLatitude(latitude)
      lon_idx == lon \div (60 * Scale)
      lat_idx == lat \div (60 * Scale)
      quadrant_60deg == Str(lon_idx + 1) \o <<GEDGARS_LETTERS[lat_idx + 1]>>
      lon_30deg_idx == ((lon % (60 * Scale)) \div (30 * Scale)) + 1
      lat_30deg_idx == 2 - ((lat % (60 * Scale)) \div (30 * Scale))
      quadrant_30deg ==
        IF resolution < 60 THEN Str((lat_30deg_idx - 1) * 2 + lon_30deg_idx)
        ELSE <<>>
  IN  <<"G", "D">> \o quadrant_60deg \o quadrant_30deg

\* GEDGARSGrid.from_latlon(latitude, longitude, resolution)
GEDGARS_from_latlon(latitude, longitude, resolution) ==
  IF ~validate_resolution("GEDGARSGrid", resolution) THEN ValueError
  ELSE GEDGARSGrid(GEDGARS_IdFromLatLon(latitude, longitude, resolution),
                   <<resolution>>)

\* the 30 degree delta of polygon: <<longitude, latitude>> in degrees
GEDGARS_30degDelta(self) ==
  IF self.quadrant_30deg = None THEN <<0, 0>>
  ELSE
    LET quad_30deg == ParseInt(self.quadrant_30deg)
    IN  <<IF quad_30deg \in {2, 4} THEN 30 ELSE 0,
          IF quad_30deg \in {1, 2} THEN 30 ELSE 0>>

\* the box the polygon property computes: <<minx, miny, maxx, maxy>>
GEDGARS_polygon(self) ==
  LET d30 == GEDGARS_30degDelta(self)
      longitude ==
        ((ParseInt(Slice(self.quadrant_60deg, 0, 1)) - 1) * 60 - 180 + d30[1])
          * Scale
      latitude ==
        (-90 + Index(GEDGARS_LETTERS, self.quadrant_60deg[2]) * 60 + d30[2])
          * Scale
  IN  <<longitude, latitude,
        longitude + self.resolution * Scale,
        latitude + self.resolution * Scale>>

(***************************************************************************)
(* The three classes behind one name                                       *)
(***************************************************************************)
Classes == {"GARSGrid", "EDGARSGrid", "GEDGARSGrid"}

\* cls(gars_id, max_resolution)
New(cls, gars_id, max_resolution) ==
  CASE cls = "GARSGrid" -> GARSGrid(gars_id, max_resolution)
    [] cls = "EDGARSGrid" -> EDGARSGrid(gars_id, max_resolution)
    [] cls = "GEDGARSGrid" -> GEDGARSGrid(gars_id, max_resolution)

\* cls.from_latlon(latitude, longitude, resolution)
from_latlon(cls, latitude, longitude, resolution) ==
  CASE cls = "GARSGrid" -> GARS_from_latlon(latitude, longitude, resolution)
    [] cls = "EDGARSGrid" -> EDGARS_from_latlon(latitude, longitude, resolution)
    [] cls = "GEDGARSGrid" -> GEDGARS_from_latlon(latitude, longitude, resolution)

\* self.polygon, computed (the memo _polygon is kept by the action that reads it)
polygon(self) ==
  CASE self.cls = "GARSGrid" -> GARS_polygon(self)
    [] self.cls = "EDGARSGrid" -> EDGARS_polygon(self)
    [] self.cls = "GEDGARSGrid" -> GEDGARS_polygon(self)

(***************************************************************************)
(* UTM zone codes (GARSGridBase.utm_epsg, GEDGARSGrid.utm_epsg)            *)
(***************************************************************************)
\* f"EPSG:{code}"
Epsg(code) == <<"E", "P", "S", "G", ":">> \o Str(code)

\* no fixed code anywhere: every centroid goes to the lookup
PolarCode_Nowhere(y2) == None

\* the fixed code for a centroid latitude y2 / 2: UPS South at -80 and below,
\* UPS North at 84 and above, None in between
PolarCode(y2) ==
  IF y2 <= 2 * (-80 * Scale) THEN Epsg(32761)
  ELSE IF y2 >= 2 * (84 * Scale) THEN Epsg(32661)
  ELSE None

\* the codes of the WGS 84 UTM zones whose area of use holds the point
\* <<x2 / 2, y2 / 2>>: the lookup answers with one of them
query_utm_crs_info(x2, y2) ==
  {(IF north THEN 32600 ELSE 32700) + zone :
     zone \in {z \in 1..60 : /\ 2 * ((-180 + 6 * (z - 1)) * Scale) <= x2
                             /\ x2 <= 2 * ((-180 + 6 * z) * Scale)},
     north \in {n \in BOOLEAN : IF n THEN 0 <= y2 /\ y2 <= 2 * (84 * Scale)
                                      ELSE 2 * (-80 * Scale) <= y2 /\ y2 <= 0}}

\* what a read of utm_epsg gives: the cell after the read, the value returned
\* and the queries made to the lookup
Read_utm_epsg(self, value, queries) ==
  [self |-> self, raised |-> FALSE, value |-> value, queries |-> queries]

\* the lookup answered with an empty list: utm_crs_list[0] raises IndexError
IndexError(self, x2, y2) ==
  [self |-> self, raised |-> TRUE, value |-> None,
   queries |-> <<[point |-> <<x2, y2>>, code |-> 0]>>]

\* utm_epsg of a cell that has no _utm_epsg yet but has its polygon, whose
\* centroid is <<x2 / 2, y2 / 2>>
Computed_utm_epsg(self, x2, y2) ==
  IF PolarCode(y2) # None
    THEN {Read_utm_epsg([self EXCEPT !._utm_epsg = PolarCode(y2)],
                        PolarCode(y2), <<>>)}
  ELSE IF query_utm_crs_info(x2, y2) = {} THEN {IndexError(self, x2, y2)}
  ELSE {Read_utm_epsg([self EXCEPT !._utm_epsg = Epsg(code)], Epsg(code),
                      <<[point |-> <<x2, y2>>, code |-> code]>>) :
          code \in query_utm_crs_info(x2, y2)}

\* self with its polygon computed and kept, as a read of self.polygon leaves it
WithPolygon(self) ==
  [self EXCEPT !._polygon = IF @ # None THEN @ ELSE polygon(self)]

\* GARSGridBase.utm_epsg: the possible reads
Base_utm_epsg(self) ==
  IF self._utm_epsg # None
    THEN {Read_utm_epsg(self, self._utm_epsg, <<>>)}
  ELSE Computed_utm_epsg(WithPolygon(self),
                         polygon(self)[1] + polygon(self)[3],
                         polygon(self)[2] + polygon(self)[4])

\* GEDGARSGrid.utm_epsg
GEDGARS_utm_epsg(self) == {Read_utm_epsg(self, None, <<>>)}

\* self.utm_epsg
utm_epsg(self) ==
  IF self.cls = "GEDGARSGrid" THEN GEDGARS_utm_epsg(self)
  ELSE Base_utm_epsg(self)

(***************************************************************************)
(* Ordering of cells (GARSGridBase.__lt__, __eq__, __hash__)               *)
(***************************************************************************)
\* a < b of two Python strings: by code point, a proper prefix first
RECURSIVE StrLess(_, _)
StrLess(a, b) ==
  IF Len(b) = 0 THEN FALSE
  ELSE IF Len(a) = 0 THEN TRUE
  ELSE IF a[1] # b[1] THEN Ord(a[1]) < Ord(b[1])
  ELSE StrLess(Tail(a), Tail(b))

\* hash(s) of a Python string: a function of its characters alone, here the
\* polynomial of their code points in 16 bits
RECURSIVE hash(_)
hash(s) ==
  IF Len(s) = 0 THEN 0
  ELSE (31 * hash(SubSeq(s, 1, Len(s) - 1)) + Ord(s[Len(s)])) % 65536

\* GARSGridBase.__str__
__str__(self) == self.gars_id

\* an equality of cells that compares every attribute
__eq__AllAttributes(self, other) == self = other

\* GARSGridBase.__eq__
__eq__(self, other) == __str__(self) = __str__(other)

\* GARSGridBase.__hash__
__hash__(self) == hash(self.gars_id)

\* GARSGridBase.__lt__
__lt__(self, other) == StrLess(self.gars_id, other.gars_id)

\* sorted(S) of a set of cells, each kept by its gars_id
RECURSIVE Sorted(_)
Sorted(S) ==
  IF S = {} THEN <<>>
  ELSE
    LET least == CHOOSE x \in S : \A y \in S : ~StrLess(y, x)
    IN  <<least>> \o Sorted(S \ {least})

\* set(list)
ToSet(list) == {list[i] : i \in 1..Len(list)}

(***************************************************************************)
(* Geometry (shapely)                                                      *)
(***************************************************************************)
\* shapely.geometry.box(minx, miny, maxx, maxy), a simple geometry
Box(minx, miny, maxx, maxy) ==
  [geom_type |-> "Polygon", geoms |-> <<<<minx, miny, maxx, maxy>>>>]

\* a MultiPolygon of boxes
MultiPolygon(boxes) == [geom_type |-> "MultiPolygon", geoms |-> boxes]

\* geom_type.startswith("Multi")
IsMulti(geom) == geom.geom_type = "MultiPolygon"

\* two closed rectangles have a point in common
BoxesIntersect(a, b) ==
  /\ a[1] <= b[3]
  /\ b[1] <= a[3]
  /\ a[2] <= b[4]
  /\ b[2] <= a[4]

\* polygon.intersects(geom)
Intersects(box, geom) ==
  \E i \in 1..Len(geom.geoms) : BoxesIntersect(box, geom.geoms[i])

Min(S) == CHOOSE x \in S : \A y \in S : x <= y

Max(S) == CHOOSE x \in S : \A y \in S : y <= x

\* geom.bounds: <<minx, miny, maxx, maxy>>
Bounds(geom) ==
  LET n == 1..Len(geom.geoms)
  IN  <<Min({geom.geoms[i][1] : i \in n}), Min({geom.geoms[i][2] : i \in n}),
        Max({geom.geoms[i][3] : i \in n}), Max({geom.geoms[i][4] : i \in n})>>

(***************************************************************************)
(* GARSField                                                               *)
(***************************************************************************)
\* the attributes that cache a level, coarsest first within each grid
Levels == <<"_gars_60deg", "_gars_30deg",
            "_gars_6deg", "_gars_3deg", "_gars_1deg",
            "_gars_30min", "_gars_15min", "_gars_5min", "_gars_1min">>

\* GARSField(bounding_geom): every cache is None
GARSField(bounding_geom) ==
  [bounding_geom |-> bounding_geom,
   _gars_60deg |-> None, _gars_30deg |-> None,
   _gars_6deg |-> None, _gars_3deg |-> None, _gars_1deg |-> None,
   _gars_30min |-> None, _gars_15min |-> None, _gars_5min |-> None,
   _gars_1min |-> None]

\* <<min_lon, min_lat, max_lon, max_lat>>
_get_bounds(self) ==
  LET b == Bounds(self.bounding_geom)
  IN  <<IF b[1] < -180 * Scale THEN -180 * Scale ELSE b[1],
        b[2],
        IF b[3] >= 180 * Scale THEN 180 * Scale - 1 ELSE b[3],
        b[4]>>

\* LETTERS[a:b] with 0 <= a, 0 <= b
LetterSlice(LETTERS, a, b) ==
  LET hi == IF b < Len(LETTERS) THEN b ELSE Len(LETTERS)
  IN  IF a >= hi THEN <<>> ELSE SubSeq(LETTERS, a + 1, hi)

\* the product with the second list as the outer loop
ProductJoin_SecondOuter(A, B) ==
  [k \in 1..(Len(A) * Len(B)) |->
     A[((k - 1) % Len(A)) + 1] \o B[((k - 1) \div Len(A)) + 1]]

\* list(itertools.product(A, B)), each pair joined to one string
ProductJoin(A, B) ==
  [k \in 1..(Len(A) * Len(B)) |->
     A[((k - 1) \div Len(B)) + 1] \o B[((k - 1) % Len(B)) + 1]]

\* a string of letters as the list of its one-letter strings
Each(str) == [i \in 1..Len(str) |-> <<str[i]>>]

\* the same without the end of the slice: lat_letter1_range[1:]
Inner_ToEnd(str) == IF Len(str) <= 1 THEN <<>> ELSE SubSeq(str, 2, Len(str))

\* lat_letter1_range[1:-1]
Inner(str) == IF Len(str) <= 2 THEN <<>> ELSE SubSeq(str, 2, Len(str) - 1)

_get_lat_letter_range(LETTERS, ll_lat1, ll_lat2, ur_lat1, ur_lat2) ==
  LET lat_letter1_range ==
        LetterSlice(LETTERS, Index(LETTERS, ll_lat1), Index(LETTERS, ur_lat1) + 1)
      lat_letter2_range ==
        LetterSlice(LETTERS, Index(LETTERS, ll_lat2), Index(LETTERS, ur_lat2) + 1)
  IN  IF ll_lat1 # ur_lat1
        THEN ProductJoin(<<<<ll_lat1>>>>,
                         Each(LetterSlice(LETTERS, Index(LETTERS, ll_lat2),
                                          Len(LETTERS))))
               \o ProductJoin(Each(Inner(lat_letter1_range)), Each(LETTERS))
               \o ProductJoin(<<<<ur_lat1>>>>,
                              Each(LetterSlice(LETTERS, 0,
                                               Index(LETTERS, ur_lat2) + 1)))
      ELSE ProductJoin(Each(lat_letter1_range), Each(lat_letter2_range))

\* the same without the + 1: [f"{n:0wd}" for n in range(lo, hi)]
NumRange_HalfOpen(lo, hi, w) ==
  IF hi <= lo THEN <<>> ELSE [k \in 1..(hi - lo) |-> Format0(lo + k - 1, w)]

\* [f"{n:0wd}" for n in range(lo, hi + 1)]
NumRange(lo, hi, w) ==
  IF hi < lo THEN <<>> ELSE [k \in 1..(hi - lo + 1) |-> Format0(lo + k - 1, w)]

\* the ranges of a top level from its two corner cells; raised when from_latlon
\* raises on a corner
CornerRanges(ll, ur, LETTERS, lo, hi, w) ==
  IF ll.raised \/ ur.raised
    THEN [raised |-> TRUE, lon_num_range |-> <<>>, lat_letter_range |-> <<>>]
  ELSE
    LET ll_gars == ll.cell.gars_id
        ur_gars == ur.cell.gars_id
    IN  [raised |-> FALSE,
         lon_num_range |->
           NumRange(ParseInt(Slice(ll_gars, lo, hi)),
                    ParseInt(Slice(ur_gars, lo, hi)), w),
         lat_letter_range |->
           _get_lat_letter_range(LETTERS, ll_gars[4], ll_gars[5],
                                 ur_gars[4], ur_gars[5])]

\* _get_6deg_ranges with the letters of GARSGrid for the letter range
_get_6deg_ranges_StandardLetters(self) ==
  LET b == _get_bounds(self)
  IN  CornerRanges(EDGARS_from_latlon(b[2], b[1], 6),
                   EDGARS_from_latlon(b[4], b[3], 6),
                   GARS_LETTERS, 1, 3, 2)

_get_6deg_ranges(self) ==
  LET b == _get_bounds(self)
  IN  CornerRanges(EDGARS_from_latlon(b[2], b[1], 6),
                   EDGARS_from_latlon(b[4], b[3], 6),
                   EDGARS_LETTERS, 1, 3, 2)

_get_30min_ranges(self) ==
  LET b == _get_bounds(self)
  IN  CornerRanges(GARS_from_latlon(b[2], b[1], 30),
                   GARS_from_latlon(b[4], b[3], 30),
                   GARS_LETTERS, 0, 3, 3)

\* the cells a loop appends: of the first stop candidates, those constructed
\* whose polygon intersects the geometry
Appended(made, geom, stop) ==
  SelectSeq([k \in 1..stop |-> made[k]],
            LAMBDA r : ~r.raised /\ Intersects(polygon(r.cell), geom))

\* the outcome of a loop that ends at the first failing construction
ScanUntil(made, geom, failing) ==
  IF failing = {}
    THEN [raised |-> FALSE, cells |-> Appended(made, geom, Len(made))]
  ELSE [raised |-> TRUE, cells |-> Appended(made, geom, Min(failing) - 1)]

\* the list of the gars_id of a list of cells
Ids(results) == [k \in 1..Len(results) |-> results[k].cell.gars_id]

\* the loop of a level over its candidate identifiers: a candidate whose
\* construction raises is skipped (try/except ValueError: continue) when skip,
\* and ends the loop with the error otherwise; the others are appended when
\* their polygon intersects the geometry
ScanMade(made, geom, skip) ==
  IF skip
    THEN [raised |-> FALSE, cells |-> Appended(made, geom, Len(made))]
  ELSE ScanUntil(made, geom, {k \in 1..Len(made) : made[k].raised})

Scan(cls, candidates, geom, skip) ==
  ScanMade([k \in 1..Len(candidates) |-> New(cls, candidates[k], None)],
           geom, skip)

\* what a level is built from: its grid, the level it refines ("" for a top
\* level) and the indices appended to a parent
LevelInfo(name) ==
  CASE name = "_gars_60deg" ->
         [cls |-> "GEDGARSGrid", parent |-> "", suffixes |-> <<>>]
    [] name = "_gars_30deg" ->
         [cls |-> "GEDGARSGrid", parent |-> "_gars_60deg",
          suffixes |-> [q \in 1..4 |-> Str(q)]]
    [] name = "_gars_6deg" ->
         [cls |-> "EDGARSGrid", parent |-> "", suffixes |-> <<>>]
    [] name = "_gars_3deg" ->
         [cls |-> "EDGARSGrid", parent |-> "_gars_6deg",
          suffixes |-> [q \in 1..4 |-> Str(q)]]
    [] name = "_gars_1deg" ->
         [cls |-> "EDGARSGrid", parent |-> "_gars_3deg",
          suffixes |-> [q \in 1..9 |-> Str(q)]]
    [] name = "_gars_30min" ->
         [cls |-> "GARSGrid", parent |-> "", suffixes |-> <<>>]
    [] name = "_gars_15min" ->
         [cls |-> "GARSGrid", parent |-> "_gars_30min",
          suffixes |-> [q \in 1..4 |-> Str(q)]]
    [] name = "_gars_5min" ->
         [cls |-> "GARSGrid", parent |-> "_gars_15min",
          suffixes |-> [q \in 1..9 |-> Str(q)]]
    [] name = "_gars_1min" ->
         [cls |-> "GARSGrid", parent |-> "_gars_5min",
          suffixes |-> [q \in 1..25 |-> Format0(q, 2)]]

\* the identifiers of a top level from its ranges
RangeCandidates(head, r) ==
  [raised |-> r.raised,
   ids |-> ProductJoin([k \in 1..Len(r.lon_num_range) |->
                          head \o r.lon_num_range[k]],
                       r.lat_letter_range)]

\* the candidates of a top level of a simple geometry; raised when the range
\* computation raises
TopCandidates(name, self) ==
  IF name = "_gars_60deg"
    THEN [raised |-> FALSE,
          ids |-> ProductJoin([n \in 1..6 |-> <<"G", "D">> \o Str(n)],
                              Each(GEDGARS_LETTERS))]
  ELSE IF name = "_gars_6deg"
    THEN RangeCandidates(<<"D">>, _get_6deg_ranges(self))
  ELSE RangeCandidates(<<>>, _get_30min_ranges(self))

\* What reading a level gives: the field after the read, whether the read
\* raised, and the list returned.  A cache is None or <<list>>.
Outcome(self, raised, value) ==
  [self |-> self, raised |-> raised, value |-> value]

\* a loop has run on self, which holds every cache but that of the level
Scanned(name, self, scan) ==
  Outcome([self EXCEPT ![name] = <<Ids(scan.cells)>>], scan.raised,
          IF scan.raised THEN <<>> ELSE Ids(scan.cells))

\* a top level of a simple geometry, its cache already []
TopLevel(name, cls, self, top) ==
  IF top.raised THEN Outcome(self, TRUE, <<>>)
  ELSE Scanned(name, self,
               Scan(cls, top.ids, self.bounding_geom, name # "_gars_60deg"))

\* Refined that does not keep the list of the coarser level
Refined_ForgetsCoarser(name, info, coarser) ==
  IF coarser.raised THEN Outcome(coarser.self, TRUE, <<>>)
  ELSE Scanned(name, [coarser.self EXCEPT ![info.parent] = None],
               Scan(info.cls, ProductJoin(coarser.value, info.suffixes),
                    coarser.self.bounding_geom, FALSE))

\* a finer level of a simple geometry, after its coarser level has been read
Refined(name, info, coarser) ==
  IF coarser.raised THEN Outcome(coarser.self, TRUE, <<>>)
  ELSE Scanned(name, coarser.self,
               Scan(info.cls, ProductJoin(coarser.value, info.suffixes),
                    coarser.self.bounding_geom, FALSE))

\* the list a multi geometry's loop leaves when it has run over every part
Merged(name, self, list) ==
  Outcome([self EXCEPT ![name] = <<list>>], FALSE, list)

RECURSIVE Level(_, _)
RECURSIVE Parts(_, _, _, _)
\* a part has been read: its error ends the loop with the list gathered so far
\* in the cache, its cells are added to that list otherwise
PartRead(name, self, i, acc, r) ==
  IF r.raised THEN Outcome([self EXCEPT ![name] = <<acc>>], TRUE, <<>>)
  ELSE Parts(name, self, i + 1, acc \o r.value)

\* the loop over the parts of a multi geometry, from part i with the list
\* gathered so far
Parts(name, self, i, acc) ==
  IF i > Len(self.bounding_geom.geoms)
    THEN Merged(name, self, Sorted(ToSet(acc)))
  ELSE PartRead(name, self, i, acc,
                Level(name, GARSField([geom_type |-> "Polygon",
                                       geoms |-> <<self.bounding_geom.geoms[i]>>])))

\* the property of a level read on self
Level(name, self) ==
  IF self[name] # None THEN Outcome(self, FALSE, self[name][1])
  ELSE IF IsMulti(self.bounding_geom) THEN Parts(name, self, 1, <<>>)
  ELSE IF LevelInfo(name).parent = ""
    THEN TopLevel(name, LevelInfo(name).cls, [self EXCEPT ![name] = <<<<>>>>],
                  TopCandidates(name, self))
  ELSE Refined(name, LevelInfo(name),
               Level(LevelInfo(name).parent, [self EXCEPT ![name] = <<<<>>>>]))

gars_60deg(self) == Level("_gars_60deg", self)

gars_30deg(self) == Level("_gars_30deg", self)

gars_6deg(self) == Level("_gars_6deg", self)

gars_3deg(self) == Level("_gars_3deg", self)

gars_1deg(self) == Level("_gars_1deg", self)

gars_30min(self) == Level("_gars_30min", self)

gars_15min(self) == Level("_gars_15min", self)

gars_5min(self) == Level("_gars_5min", self)

gars_1min(self) == Level("_gars_1min", self)

(***************************************************************************)
(* Inputs                                                                  *)
(***************************************************************************)
\* longest run of characters appended after a sampled identifier
MaxJunk == 1

\* most parts of a sampled multi geometry
MaxParts == 2

\* most reads of a level property on one field
MaxReads == 2

\* what may follow a sampled identifier: a line feed, a letter, a digit
JunkChars == {"\n", "X", "0"}

RECURSIVE StringsUpTo(_, _)
StringsUpTo(chars, n) ==
  IF n = 0 THEN {<<>>}
  ELSE LET shorter == StringsUpTo(chars, n - 1)
       IN  shorter \cup {s \o <<c>> : s \in {t \in shorter : Len(t) = n - 1},
                                      c \in chars}

Junk == StringsUpTo(JunkChars, MaxJunk)

\* the first five (four for GEDGARS) characters of the sampled identifiers:
\* first and last cells, cells at the edges of the letter classes, and bands
\* and letters just outside
Heads(cls) ==
  CASE cls = "GARSGrid" ->
         {<<"0", "0", "1", "A", "A">>, <<"7", "2", "0", "Q", "Z">>,
          <<"3", "6", "1", "H", "N">>, <<"7", "2", "0", "H", "N">>,
          <<"0", "0", "0", "A", "A">>,
          <<"7", "2", "1", "A", "A">>, <<"0", "0", "1", "R", "A">>,
          <<"0", "0", "1", "A", "I">>, <<"0", "1", "A", "A">>}
    [] cls = "EDGARSGrid" ->
         {<<"D", "0", "1", "A", "A">>, <<"D", "6", "0", "B", "K">>,
          <<"D", "2", "0", "B", "J">>, <<"D", "2", "0", "B", "L">>,
          <<"D", "2", "0", "A", "V">>, <<"D", "0", "0", "A", "A">>,
          <<"D", "6", "1", "A", "A">>, <<"D", "2", "0", "C", "A">>,
          <<"D", "2", "0", "A", "O">>, <<"2", "0", "B", "J">>}
    [] cls = "GEDGARSGrid" ->
         {<<"G", "D", "1", "A">>, <<"G", "D", "6", "C">>,
          <<"G", "D", "4", "B">>, <<"G", "D", "0", "A">>,
          <<"G", "D", "7", "A">>, <<"G", "D", "1", "D">>,
          <<"D", "1", "A">>}

\* the characters after the head: every level's first and last index, and
\* indices just outside
Tails(cls) ==
  CASE cls = "GARSGrid" ->
         {<<>>, <<"1">>, <<"4">>, <<"0">>, <<"5">>,
          <<"1", "1">>, <<"4", "9">>, <<"1", "0">>,
          <<"1", "1", "0">>,
          <<"1", "1", "0", "1">>, <<"4", "9", "2", "5">>,
          <<"2", "5", "1", "3">>, <<"2", "6", "0", "4">>,
          <<"1", "1", "0", "0">>, <<"1", "1", "2", "6">>}
    [] cls = "EDGARSGrid" ->
         {<<>>, <<"1">>, <<"4">>, <<"0">>, <<"5">>, <<"9">>,
          <<"1", "1">>, <<"4", "9">>, <<"3", "5">>, <<"3", "7">>, <<"1", "0">>,
          <<"5", "1">>, <<"9", "6">>}
    [] cls = "GEDGARSGrid" ->
         {<<>>, <<"1">>, <<"2">>, <<"3">>, <<"4">>, <<"0">>, <<"5">>}

\* the strings handed to a constructor
Identifiers(cls) ==
  {h \o t \o j : h \in Heads(cls), t \in Tails(cls), j \in Junk}

\* resolutions some class or no class lacks: zero, one no class has, one only
\* GARSGrid has, one only GEDGARSGrid has
BadResolutions == {0, 2, 15, 60}

\* the max_resolution arguments: absent, each valid one, an invalid one
MaxResolutions(cls) ==
  {None} \cup {<<r>> : r \in VALID_RESOLUTIONS(cls) \cup BadResolutions}

\* sampled coordinates, in units: whole degrees, then whole minutes, then units
LatDegrees == {-90, 0, 89}

LonDegrees == {-180, 0, 179}

SampleMinutes == {0, 59}

\* a coordinate given in hundredths of a degree, in units: the unit point at
\* or next below it
Hundredths(h) == (h * Scale) \div 100

\* the points of the documented scenarios, <<latitude, longitude>>: one unit
\* inside the south west corner of 720HN2604, and -89.55, -179.57
ScenarioPoints ==
  {<<24 * MinUnits + 1, 179 * Scale + 58 * MinUnits + 1>>,
   <<Hundredths(-8955), Hundredths(-17957)>>}

Latitudes ==
  {d * Scale + m * MinUnits + u :
     d \in LatDegrees, m \in SampleMinutes, u \in 0..(MinUnits - 1)}
    \cup {90 * Scale} \cup {p[1] : p \in ScenarioPoints}

Longitudes ==
  {d * Scale + m * MinUnits + u :
     d \in LonDegrees, m \in SampleMinutes, u \in 0..(MinUnits - 1)}
    \cup {180 * Scale} \cup {p[2] : p \in ScenarioPoints}

\* the corners regions are drawn around: <<longitude, latitude>> in degrees
Anchors == {<<-174, -78>>, <<0, 0>>, <<180, 0>>}

\* offsets of a region's west and east edges from its anchor, in units
LonOffsets == {-1, 0, 1}

\* offsets of a region's south and north edges from its anchor, in units
LatOffsets == {0, 1}

\* the simple regions: boxes (possibly a point or a segment) at the anchors
SimpleBoxes ==
  {<<a[1] * Scale + w, a[2] * Scale + s, a[1] * Scale + e, a[2] * Scale + n>> :
     a \in Anchors, w \in LonOffsets, s \in LatOffsets,
     e \in LonOffsets, n \in LatOffsets}

Regions ==
  {b \in SimpleBoxes : b[1] <= b[3] /\ b[2] <= b[4] /\ b[3] <= 180 * Scale}

\* the parts multi geometries are made of: a segment east of the first anchor;
\* a box at the second, and the boxes that share its west and its south edge;
\* a segment on the 180th meridian, and the box whose east edge it is
PartBoxes ==
  {<<-174 * Scale, -78 * Scale, -174 * Scale + 1, -78 * Scale>>,
   <<0, 0, 1, 1>>,
   <<-1, 0, 0, 1>>,
   <<0, -1, 1, 0>>,
   <<180 * Scale, 0, 180 * Scale, 1>>,
   <<180 * Scale - 1, 0, 180 * Scale, 1>>}

RECURSIVE PartLists(_)
PartLists(n) ==
  IF n = 0 THEN {<<>>}
  ELSE {l \o <<b>> : l \in PartLists(n - 1), b \in PartBoxes}

Geometries ==
  {Box(b[1], b[2], b[3], b[4]) : b \in Regions}
    \cup {MultiPolygon(l) : l \in UNION {PartLists(n) : n \in 2..MaxParts}}

(***************************************************************************)
(* State                                                                   *)
(***************************************************************************)
VARIABLES
  call,    \* the call on a grid class: its name and its arguments
  pc,      \* "call" before that call has run, "done" after, "idle" without one
  ret,     \* what the call did: whether it raised, and the cell it returned
  field,   \* a GARSField: its bounding_geom and its nine caches
  reads,   \* how many times a level of field has been read
  access,  \* the last read of a level of field: its name, whether it raised,
           \* and the list it returned
  utm,     \* the reads of utm_epsg on the returned cell: whether there was
           \* one, whether the last raised and what it returned, and the
           \* queries made to the CRS lookup, each with the code it answered
  shared,  \* one level of field under access by threads: its name, its
           \* cache slot (None or a reference to a list) and the lists
           \* allocated, by reference
  threads  \* each thread's position in the property, its loop index, the
           \* list it loaded for +=, and the list it returned as it was then

vars == <<call, pc, ret, field, reads, access, utm, shared, threads>>

NoCall ==
  [op |-> "", cls |-> "", gars_id |-> <<>>, max_resolution |-> None,
   latitude |-> 0, longitude |-> 0, resolution |-> 0]

NoReturn == [raised |-> FALSE, cell |-> None]

NoAccess == [name |-> "", raised |-> FALSE, value |-> <<>>]

NoField == GARSField(Box(0, 0, 0, 0))

NoUtm == [read |-> FALSE, raised |-> FALSE, value |-> None, queries |-> <<>>]

NoShared == [name |-> "", slot |-> None, heap |-> <<>>]

\* the threads that access one level
Threads == {1, 2}

NoThreads == [t \in Threads |-> [pc |-> "", k |-> 0, tmp |-> 0, returned |-> None]]

\* the calls cls(gars_id, max_resolution)
InitCalls ==
  {[NoCall EXCEPT !.op = "__init__", !.cls = c[1], !.gars_id = c[2],
                  !.max_resolution = c[3]] :
     c \in UNION {{<<cls, id, m>> : id \in Identifiers(cls),
                                    m \in MaxResolutions(cls)} :
                    cls \in Classes}}

\* the calls cls.from_latlon(latitude, longitude, resolution)
LatLonCalls ==
  {[NoCall EXCEPT !.op = "from_latlon", !.cls = c[1], !.latitude = c[2],
                  !.longitude = c[3], !.resolution = c[4]] :
     c \in UNION {{<<cls, lat, lon, r>> :
                     lat \in Latitudes, lon \in Longitudes,
                     r \in VALID_RESOLUTIONS(cls) \cup BadResolutions} :
                    cls \in Classes}}

\* a call on a grid class is about to run
InitGrid ==
  /\ call \in InitCalls \cup LatLonCalls
  /\ pc = "call"
  /\ ret = NoReturn
  /\ field = NoField
  /\ reads = 0
  /\ access = NoAccess
  /\ utm = NoUtm
  /\ shared = NoShared
  /\ threads = NoThreads

\* a GARSField has been constructed around a geometry
InitField ==
  /\ call = NoCall
  /\ pc = "idle"
  /\ ret = NoReturn
  /\ field \in {GARSField(g) : g \in Geometries}
  /\ reads = 0
  /\ access = NoAccess
  /\ utm = NoUtm
  /\ shared = NoShared
  /\ threads = NoThreads

(***************************************************************************)
(* Operations on a grid class                                              *)
(***************************************************************************)
\* cls(gars_id, max_resolution) runs
Construct ==
  /\ pc = "call"
  /\ call.op = "__init__"
  /\ ret' = New(call.cls, call.gars_id, call.max_resolution)
  /\ pc' = "done"
  /\ UNCHANGED <<call, field, reads, access, utm, shared, threads>>

\* cls.from_latlon(latitude, longitude, resolution) runs
FromLatLon ==
  /\ pc = "call"
  /\ call.op = "from_latlon"
  /\ ret' = from_latlon(call.cls, call.latitude, call.longitude,
                        call.resolution)
  /\ pc' = "done"
  /\ UNCHANGED <<call, field, reads, access, utm, shared, threads>>

\* the polygon property of the returned cell is read: computed and kept in
\* _polygon the first time, returned from _polygon afterwards
Polygon ==
  /\ pc = "done"
  /\ ~ret.raised
  /\ ret' = [ret EXCEPT !.cell._polygon =
                          IF @ # None THEN @ ELSE polygon(ret.cell)]
  /\ UNCHANGED <<call, pc, field, reads, access, utm, shared, threads>>

\* the utm_epsg property of the returned cell is read
UtmEpsg ==
  /\ pc = "done"
  /\ ~ret.raised
  /\ \E r \in utm_epsg(ret.cell) :
       /\ ret' = [ret EXCEPT !.cell = r.self]
       /\ utm' = [read |-> TRUE, raised |-> r.raised, value |-> r.value,
                  queries |-> utm.queries \o r.queries]
  /\ UNCHANGED <<call, pc, field, reads, access, shared, threads>>

\* the simple regions read at the levels without a coarser level: those
\* above; a box whose edges lie on edges of 30 minute cells; a box across
\* latitude 30, where the first letter changes in both grids; a segment over
\* four first letters of GARS; a box over several 6 degree cells; a box at the
\* north pole and one at the south west corner of the world
TopBoxes ==
  Regions \cup
  {<<-Scale, -(Scale \div 2), 0, Scale \div 2>>,
   <<0, 29 * Scale, 1, 31 * Scale>>,
   <<-174 * Scale, -79 * Scale, -174 * Scale, -53 * Scale>>,
   <<-6 * Scale, -6 * Scale, 6 * Scale, 6 * Scale>>,
   <<0, 90 * Scale - 1, 1, 90 * Scale>>,
   <<-180 * Scale, -90 * Scale, -180 * Scale + 1, -90 * Scale + 1>>}

\* the simple regions read at every level: those above, a box of one degree
\* whose edges lie on edges of 30 minute cells, and a box across latitude 30
SimpleFieldBoxes ==
  Regions \cup
  {<<-Scale, -(Scale \div 2), 0, Scale \div 2>>,
   <<0, 29 * Scale, 1, 31 * Scale>>}

\* a GARSField has been constructed around a simple region
InitSimple ==
  /\ call = NoCall
  /\ pc = "idle"
  /\ ret = NoReturn
  /\ field \in {GARSField(Box(b[1], b[2], b[3], b[4])) : b \in SimpleFieldBoxes}
  /\ reads = 0
  /\ access = NoAccess
  /\ utm = NoUtm
  /\ shared = NoShared
  /\ threads = NoThreads

\* a few geometries of each kind: a box in one 30 minute cell and a box in
\* four, a segment on the 180th meridian and the box whose east edge it is,
\* and multi geometries of two of these
MixedGeometries ==
  {Box(0, 0, 1, 1),
   Box(-1, -1, 1, 1),
   Box(180 * Scale, 0, 180 * Scale, 1),
   Box(180 * Scale - 1, 0, 180 * Scale, 1),
   MultiPolygon(<<<<0, 0, 1, 1>>, <<-1, -1, 1, 1>>>>),
   MultiPolygon(<<<<0, 0, 1, 1>>, <<0, 0, 1, 1>>>>),
   MultiPolygon(<<<<0, 0, 1, 1>>, <<180 * Scale, 0, 180 * Scale, 1>>>>),
   MultiPolygon(<<<<180 * Scale, 0, 180 * Scale, 1>>, <<-1, -1, 1, 1>>>>)}

\* a GARSField has been constructed around one of them
InitMixed ==
  /\ call = NoCall
  /\ pc = "idle"
  /\ ret = NoReturn
  /\ field \in {GARSField(g) : g \in MixedGeometries}
  /\ reads = 0
  /\ access = NoAccess
  /\ utm = NoUtm
  /\ shared = NoShared
  /\ threads = NoThreads

\* a GARSField has been constructed around a simple region
InitTop ==
  /\ call = NoCall
  /\ pc = "idle"
  /\ ret = NoReturn
  /\ field \in {GARSField(Box(b[1], b[2], b[3], b[4])) : b \in TopBoxes}
  /\ reads = 0
  /\ access = NoAccess
  /\ utm = NoUtm
  /\ shared = NoShared
  /\ threads = NoThreads

(***************************************************************************)
(* Operations on a GARSField                                               *)
(***************************************************************************)
\* a level property is read
Read(r, name) ==
  /\ pc = "idle"
  /\ reads < MaxReads
  /\ reads' = reads + 1
  /\ field' = r.self
  /\ access' = [name |-> name, raised |-> r.raised, value |-> r.value]
  /\ UNCHANGED <<call, pc, ret, utm, shared, threads>>

Read_gars_60deg == Read(gars_60deg(field), "_gars_60deg")

Read_gars_30deg == Read(gars_30deg(field), "_gars_30deg")

Read_gars_6deg == Read(gars_6deg(field), "_gars_6deg")

Read_gars_3deg == Read(gars_3deg(field), "_gars_3deg")

Read_gars_1deg == Read(gars_1deg(field), "_gars_1deg")

Read_gars_30min == Read(gars_30min(field), "_gars_30min")

Read_gars_15min == Read(gars_15min(field), "_gars_15min")

Read_gars_5min == Read(gars_5min(field), "_gars_5min")

Read_gars_1min == Read(gars_1min(field), "_gars_1min")

(***************************************************************************)
(* GARSField._get_lat_letter_range called on its own                       *)
(***************************************************************************)
\* gars_grid.LETTERS
LettersOf(gars_grid) ==
  CASE gars_grid = "GARSGrid" -> GARS_LETTERS
    [] gars_grid = "EDGARSGrid" -> EDGARS_LETTERS
    [] gars_grid = "GEDGARSGrid" -> GEDGARS_LETTERS

\* the second letters sampled: the first two, a middle one and the last two
SecondLetters(gars_grid) ==
  {LettersOf(gars_grid)[i] :
     i \in {1, 2, Len(LettersOf(gars_grid)) \div 2,
            Len(LettersOf(gars_grid)) - 1, Len(LettersOf(gars_grid))}}

\* the calls _get_lat_letter_range(gars_grid, ll_lat1, ll_lat2, ur_lat1,
\* ur_lat2) whose lower left pair is not north of the upper right pair
LetterCalls ==
  UNION {{[op |-> "_get_lat_letter_range", gars_grid |-> g,
           ll_lat1 |-> a, ll_lat2 |-> b, ur_lat1 |-> c, ur_lat2 |-> d] :
            <<a, b, c, d>> \in
              {q \in ToSet(LettersOf(g)) \X SecondLetters(g)
                       \X ToSet(LettersOf(g)) \X SecondLetters(g) :
                 \/ Index(LettersOf(g), q[1]) < Index(LettersOf(g), q[3])
                 \/ /\ q[1] = q[3]
                    /\ Index(LettersOf(g), q[2]) <= Index(LettersOf(g), q[4])}} :
           g \in {"GARSGrid", "EDGARSGrid"}}

\* a call of _get_lat_letter_range is about to run
InitLetters ==
  /\ call \in LetterCalls
  /\ pc = "call"
  /\ ret = NoReturn
  /\ field = NoField
  /\ reads = 0
  /\ access = NoAccess
  /\ utm = NoUtm
  /\ shared = NoShared
  /\ threads = NoThreads

\* the call runs and returns its list
GetLatLetterRange ==
  /\ pc = "call"
  /\ call.op = "_get_lat_letter_range"
  /\ ret' = [raised |-> FALSE, cell |-> None,
             lat_letter_range |->
               _get_lat_letter_range(LettersOf(call.gars_grid),
                                     call.ll_lat1, call.ll_lat2,
                                     call.ur_lat1, call.ur_lat2)]
  /\ pc' = "done"
  /\ UNCHANGED <<call, field, reads, access, utm, shared, threads>>

(***************************************************************************)
(* Threads reading one level of one GARSField                             *)
(*                                                                         *)
(* The property of a level, statement by statement.  field holds the      *)
(* geometry; the attribute of the level is shared.slot, a reference into  *)
(* shared.heap, so that self._x = [] (a new list), self._x.append(g) and   *)
(* self._x += ... (the list referred to changes in place) and              *)
(* self._x = sorted(set(self._x)) (a new list) differ as they do in        *)
(* Python.  The levels are those without a coarser level: a finer level    *)
(* reads the property of the level it refines in the middle of its own.   *)
(***************************************************************************)
TopLevels == {"_gars_60deg", "_gars_6deg", "_gars_30min"}

\* the geometries threads read: a box in one 30 minute cell and a box in four,
\* a segment on the 180th meridian, and multi geometries of two of these
ThreadGeometries ==
  {Box(0, 0, 1, 1),
   Box(-1, -1, 1, 1),
   Box(180 * Scale, 0, 180 * Scale, 1),
   MultiPolygon(<<<<0, 0, 1, 1>>, <<-1, -1, 1, 1>>>>),
   MultiPolygon(<<<<0, 0, 1, 1>>, <<180 * Scale, 0, 180 * Scale, 1>>>>)}

\* threads are about to read the property of a level of a new GARSField
InitThreads ==
  /\ call = NoCall
  /\ pc = "threads"
  /\ ret = NoReturn
  /\ field \in {GARSField(g) : g \in ThreadGeometries}
  /\ reads = 0
  /\ access = NoAccess
  /\ utm = NoUtm
  /\ shared \in {[NoShared EXCEPT !.name = n] : n \in TopLevels}
  /\ threads = [t \in Threads |-> [NoThreads[t] EXCEPT !.pc = "check"]]

\* thread t moves to position p
Goto(t, p) == threads' = [threads EXCEPT ![t].pc = p]

\* thread t returns the list the attribute refers to, as it is at that time
ReturnList(t) ==
  threads' = [threads EXCEPT ![t].pc = "done",
                             ![t].returned = <<shared.heap[shared.slot[1]]>>]

\* the attribute is made to refer to a new list
Allocate(list) ==
  shared' = [shared EXCEPT !.heap = Append(@, list),
                           !.slot = <<Len(shared.heap) + 1>>]

\* if self._x is not None: return self._x
Check(t) ==
  /\ threads[t].pc = "check"
  /\ IF shared.slot # None THEN ReturnList(t) ELSE Goto(t, "assign")
  /\ UNCHANGED <<call, pc, ret, field, reads, access, utm, shared>>

\* self._x = []
AssignEmpty(t) ==
  /\ threads[t].pc = "assign"
  /\ Allocate(<<>>)
  /\ threads' = [threads EXCEPT
                   ![t].pc = IF IsMulti(field.bounding_geom) THEN "load"
                             ELSE IF shared.name = "_gars_60deg" THEN "loop"
                             ELSE "ranges",
                   ![t].k = 1]
  /\ UNCHANGED <<call, pc, ret, field, reads, access, utm>>

\* lon_num_range, lat_letter_range = self._get_..._ranges()
Ranges(t) ==
  /\ threads[t].pc = "ranges"
  /\ Goto(t, IF TopCandidates(shared.name, field).raised THEN "raised"
             ELSE "loop")
  /\ UNCHANGED <<call, pc, ret, field, reads, access, utm, shared>>

\* the list after the body of the loop has run on a candidate
Body(list, made, geom) ==
  IF ~made.raised /\ Intersects(polygon(made.cell), geom)
    THEN Append(list, made.cell.gars_id)
  ELSE list

\* one round of the loop of a simple geometry: the next candidate is
\* constructed and, if its polygon intersects, appended to the list the
\* attribute refers to; the loop ends after the last candidate
Loop(t, ids) ==
  /\ threads[t].pc = "loop"
  /\ threads[t].k <= Len(ids)
  /\ shared' = [shared EXCEPT
                  !.heap[shared.slot[1]] =
                     Body(@, New(LevelInfo(shared.name).cls,
                                 ids[threads[t].k], None),
                          field.bounding_geom)]
  /\ threads' = [threads EXCEPT ![t].k = @ + 1]
  /\ UNCHANGED <<call, pc, ret, field, reads, access, utm>>

Append_(t) == Loop(t, TopCandidates(shared.name, field).ids)

\* return self._x
Return(t) ==
  /\ threads[t].pc \in {"loop", "return"}
  /\ threads[t].pc = "loop" =>
       threads[t].k > Len(TopCandidates(shared.name, field).ids)
  /\ ReturnList(t)
  /\ UNCHANGED <<call, pc, ret, field, reads, access, utm, shared>>

\* self._x += ...: the attribute is loaded; after the last part the loop ends
Load(t) ==
  /\ threads[t].pc = "load"
  /\ threads' = [threads EXCEPT
                   ![t].pc = IF threads[t].k > Len(field.bounding_geom.geoms)
                               THEN "sort" ELSE "extend",
                   ![t].tmp = shared.slot[1]]
  /\ UNCHANGED <<call, pc, ret, field, reads, access, utm, shared>>

\* ... += GARSField(bg).gars_x: the part is read on a GARSField of its own
\* and the list loaded is extended in place
ExtendWith(t, r) ==
  /\ threads[t].pc = "extend"
  /\ Goto(t, IF r.raised THEN "raised" ELSE "store")
  /\ shared' = [shared EXCEPT
                  !.heap[threads[t].tmp] = IF r.raised THEN @ ELSE @ \o r.value]
  /\ UNCHANGED <<call, pc, ret, field, reads, access, utm>>

Extend(t) ==
  ExtendWith(t, Level(shared.name,
                      GARSField([geom_type |-> "Polygon",
                                 geoms |-> <<field.bounding_geom.geoms[
                                               threads[t].k]>>])))

\* self._x += ...: the list extended is stored in the attribute
Store(t) ==
  /\ threads[t].pc = "store"
  /\ shared' = [shared EXCEPT !.slot = <<threads[t].tmp>>]
  /\ threads' = [threads EXCEPT ![t].pc = "load", ![t].k = @ + 1]
  /\ UNCHANGED <<call, pc, ret, field, reads, access, utm>>

\* self._x = sorted(set(self._x))
Sort(t) ==
  /\ threads[t].pc = "sort"
  /\ Allocate(Sorted(ToSet(shared.heap[shared.slot[1]])))
  /\ Goto(t, "return")
  /\ UNCHANGED <<call, pc, ret, field, reads, access, utm>>

(***************************************************************************)
(* Specifications                                                          *)
(***************************************************************************)
NextGrid ==
  \/ Construct
  \/ FromLatLon
  \/ Polygon
  \/ UtmEpsg

NextField ==
  \/ Read_gars_60deg
  \/ Read_gars_30deg
  \/ Read_gars_6deg
  \/ Read_gars_3deg
  \/ Read_gars_1deg
  \/ Read_gars_30min
  \/ Read_gars_15min
  \/ Read_gars_5min
  \/ Read_gars_1min

NextThreads ==
  \/ \E t \in Threads : Check(t)
  \/ \E t \in Threads : AssignEmpty(t)
  \/ \E t \in Threads : Ranges(t)
  \/ \E t \in Threads : Append_(t)
  \/ \E t \in Threads : Load(t)
  \/ \E t \in Threads : Extend(t)
  \/ \E t \in Threads : Store(t)
  \/ \E t \in Threads : Sort(t)
  \/ \E t \in Threads : Return(t)

\* the levels without a coarser level
NextTop ==
  \/ Read_gars_60deg
  \/ Read_gars_6deg
  \/ Read_gars_30min

NextLetters == GetLatLetterRange

Init ==
  \/ InitGrid
  \/ InitField
  \/ InitSimple
  \/ InitMixed
  \/ InitTop
  \/ InitLetters
  \/ InitThreads

Next == NextGrid \/ NextField \/ NextLetters \/ NextThreads

\* the grid classes alone
SpecGrid == InitGrid /\ [][NextGrid]_vars

\* a field alone
SpecField == InitField /\ [][NextField]_vars

\* a field over a simple region
SpecSimple == InitSimple /\ [][NextField]_vars

\* a field over one of a few simple and multi geometries
SpecMixed == InitMixed /\ [][NextField]_vars

\* a field over a simple region, read at the levels without a coarser level
SpecTop == InitTop /\ [][NextTop]_vars

\* _get_lat_letter_range alone
SpecLetters == InitLetters /\ [][NextLetters]_vars

\* threads reading one level of a field
SpecThreads == InitThreads /\ [][NextThreads]_vars

Spec == Init /\ [][Next]_vars

(***************************************************************************)
(* What the claims speak of                                                *)
(***************************************************************************)
\* the call that has run is cls(gars_id, max_resolution)
Constructed == pc = "done" /\ call.op = "__init__"

\* the call that has run is cls.from_latlon(latitude, longitude, resolution)
Located == pc = "done" /\ call.op = "from_latlon"

\* every character of s is a digit or a capital letter
Alphanumeric(s) ==
  \A i \in 1..Len(s) : IsDigit(s[i]) \/ IsIn(s[i], UpperChars)

\* the side of a cell in units: minutes for GARS, degrees for the other two
Side(cls, resolution) ==
  IF cls = "GARSGrid" THEN resolution * MinUnits ELSE resolution * Scale

\* the number of characters of an identifier at a resolution
Width(cls, resolution) ==
  CASE cls = "GARSGrid" ->
         (CASE resolution = 30 -> 5 [] resolution = 15 -> 6
            [] resolution = 5 -> 7 [] resolution = 1 -> 9)
    [] cls = "EDGARSGrid" ->
         (CASE resolution = 6 -> 5 [] resolution = 3 -> 6 [] resolution = 1 -> 7)
    [] cls = "GEDGARSGrid" ->
         (CASE resolution = 60 -> 4 [] resolution = 30 -> 5)

\* the finest resolution of a class
Finest(cls) == Min(VALID_RESOLUTIONS(cls))

\* a box is a square of the given side
IsSquare(b, side) == b[3] - b[1] = side /\ b[4] - b[2] = side

\* a closed box contains the point
Contains(b, latitude, longitude) ==
  /\ b[1] <= longitude /\ longitude <= b[3]
  /\ b[2] <= latitude /\ latitude <= b[4]

\* the latitude of the call is in [-90, 90] and its resolution is valid
LatitudeAndResolutionValid ==
  /\ -90 * Scale <= call.latitude /\ call.latitude <= 90 * Scale
  /\ validate_resolution(call.cls, call.resolution)

\* two constructions have the same outcome: both fail, or both succeed with
\* the same identifier and resolution
SameOutcome(a, b) ==
  /\ a.raised = b.raised
  /\ ~a.raised => /\ a.cell.gars_id = b.cell.gars_id
                  /\ a.cell.resolution = b.cell.resolution

(***************************************************************************)
(* C1                                                                      *)
(***************************************************************************)
\* the strings that number the bands of a class, its prefix before them
AllBands(cls) ==
  CASE cls = "GARSGrid" -> {Format0(n, 3) : n \in 1..720}
    [] cls = "EDGARSGrid" -> {<<"D">> \o Format0(n, 2) : n \in 1..60}
    [] cls = "GEDGARSGrid" -> {<<"G", "D">> \o Str(n) : n \in 1..6}

\* the strings that letter the rows of a class
AllLetters(cls) ==
  CASE cls = "GARSGrid" ->
         {<<a, b>> : a \in ToSet(GARS_LETTERS), b \in ToSet(GARS_LETTERS)}
    [] cls = "EDGARSGrid" ->
         {<<a, b>> : a \in ToSet(EDGARS_LETTERS), b \in ToSet(EDGARS_LETTERS)}
    [] cls = "GEDGARSGrid" -> {<<a>> : a \in ToSet(GEDGARS_LETTERS)}

\* the identifier is one of a valid cell
Valid(cls, id) == ~New(cls, id, None).raised

\* the polygon of the cell of a valid identifier
CellBox(cls, id) == polygon(New(cls, id, None).cell)

\* the column of a box, from pole to pole
Column(b) == <<b[1], -90 * Scale, b[3], 90 * Scale>>

\* the row of a box, around the globe
Row(b) == <<-180 * Scale, b[2], 180 * Scale, b[4]>>

\* the first band and the first letters of a class
FirstBand(cls) ==
  CASE cls = "GARSGrid" -> <<"0", "0", "1">>
    [] cls = "EDGARSGrid" -> <<"D", "0", "1">>
    [] cls = "GEDGARSGrid" -> <<"G", "D", "1">>

FirstLetters(cls) == IF cls = "GEDGARSGrid" THEN <<"A">> ELSE <<"A", "A">>

\* every identifier of a top level whose band's column and whose letters' row
\* meet the geometry: no other cell of the level can meet it
TopIds(cls, geom) ==
  {band \o letters :
     band \in {b \in AllBands(cls) :
                 /\ Valid(cls, b \o FirstLetters(cls))
                 /\ Intersects(Column(CellBox(cls, b \o FirstLetters(cls))),
                               geom)},
     letters \in {l \in AllLetters(cls) :
                    /\ Valid(cls, FirstBand(cls) \o l)
                    /\ Intersects(Row(CellBox(cls, FirstBand(cls) \o l)),
                                  geom)}}

\* every identifier of a level within those top-level cells
RECURSIVE IdsOf(_, _)
IdsOf(name, geom) ==
  IF LevelInfo(name).parent = "" THEN TopIds(LevelInfo(name).cls, geom)
  ELSE {id \o LevelInfo(name).suffixes[i] :
          id \in IdsOf(LevelInfo(name).parent, geom),
          i \in 1..Len(LevelInfo(name).suffixes)}

\* the identifiers of all valid cells of a level whose polygon meets the
\* geometry, found by trying each
BruteForce(name, geom) ==
  {id \in IdsOf(name, geom) :
     /\ Valid(LevelInfo(name).cls, id)
     /\ Intersects(CellBox(LevelInfo(name).cls, id), geom)}

\* C1: for every region and every level, the identifiers the level property
\* returns are those of all valid cells of the level whose polygon intersects
\* the region, touching included, also along its west or south edge.
C1_EnumerationCorrect ==
  (access.name # "" /\ ~access.raised)
    => ToSet(access.value) = BruteForce(access.name, field.bounding_geom)

(***************************************************************************)
(* C2                                                                      *)
(***************************************************************************)
\* C2: for every class, valid resolution, latitude in [-90, 90] and longitude
\* in [-180, 180), from_latlon returns a cell of the requested resolution
\* whose polygon is a square of side resolution that contains the point,
\* boundary included.
C2_CoordinateRoundTrip ==
  (/\ Located
   /\ LatitudeAndResolutionValid
   /\ -180 * Scale <= call.longitude /\ call.longitude < 180 * Scale)
    => /\ ~ret.raised
       /\ ret.cell.resolution = call.resolution
       /\ IsSquare(polygon(ret.cell), Side(call.cls, call.resolution))
       /\ Contains(polygon(ret.cell), call.latitude, call.longitude)
       /\ ret.cell._polygon # None => ret.cell._polygon = polygon(ret.cell)

\* from_latlon has returned the 1-minute cell of a point at latitude 90 and
\* longitude -180, on two edges of the cell, and its polygon has been read
C2_Witness ==
  /\ Located
  /\ call.cls = "GARSGrid"
  /\ call.resolution = 1
  /\ call.latitude = 90 * Scale
  /\ call.longitude = -180 * Scale
  /\ ~ret.raised
  /\ ret.cell._polygon # None
  /\ ret.cell._polygon[4] = call.latitude
  /\ ret.cell._polygon[1] = call.longitude

InteriorPoints(b) ==
  {<<x, y>> \in {b[1] + 1, b[3] - 1} \X {b[2] + 1, b[4] - 1} :
     b[1] < x /\ x < b[3] /\ b[2] < y /\ y < b[4]}

\* from_latlon at a point and a resolution gives the identifier cut to the
\* width of that resolution
Canonical(cell, point, resolution) ==
  SameOutcome(from_latlon(cell.cls, point[2], point[1], resolution),
              Returns([gars_id |-> Prefix(cell.gars_id,
                                          Width(cell.cls, resolution)),
                       resolution |-> resolution]))

\* C4: for every identifier the constructor accepts, every valid resolution
\* equal to or coarser than the cell's, and every point strictly inside the
\* cell's polygon, from_latlon at that point and resolution returns the cell
\* whose identifier is the accepted one cut to the width of that resolution.
C4_Canonicalization ==
  (/\ Constructed
   /\ call.max_resolution = None
   /\ Alphanumeric(call.gars_id)
   /\ ~ret.raised)
    => \A resolution \in VALID_RESOLUTIONS(call.cls) :
         resolution >= ret.cell.resolution
           => \A point \in InteriorPoints(polygon(ret.cell)) :
                Canonical(ret.cell, point, resolution)

(***************************************************************************)
(* C5                                                                      *)
(***************************************************************************)
\* the indices that make the children of a cell
ChildIndices(cell) ==
  CASE cell.cls = "GARSGrid" /\ cell.resolution = 30 -> [q \in 1..4 |-> Str(q)]
    [] cell.cls = "GARSGrid" /\ cell.resolution = 15 -> [q \in 1..9 |-> Str(q)]
    [] cell.cls = "GARSGrid" /\ cell.resolution = 5 ->
         [q \in 1..25 |-> Format0(q, 2)]
    [] cell.cls = "EDGARSGrid" /\ cell.resolution = 6 -> [q \in 1..4 |-> Str(q)]
    [] cell.cls = "EDGARSGrid" /\ cell.resolution = 3 -> [q \in 1..9 |-> Str(q)]
    [] cell.cls = "GEDGARSGrid" /\ cell.resolution = 60 ->
         [q \in 1..4 |-> Str(q)]

Area(b) == (b[3] - b[1]) * (b[4] - b[2])

\* two boxes share interior points
Overlap(a, b) == a[1] < b[3] /\ b[1] < a[3] /\ a[2] < b[4] /\ b[2] < a[4]

Within(a, b) == b[1] <= a[1] /\ a[3] <= b[3] /\ b[2] <= a[2] /\ a[4] <= b[4]

RECURSIVE Sum(_)
Sum(seq) == IF seq = <<>> THEN 0 ELSE Head(seq) + Sum(Tail(seq))

\* the boxes are pairwise interior-disjoint and their union is the whole
Tiles(boxes, whole) ==
  /\ \A i, j \in 1..Len(boxes) : i # j => ~Overlap(boxes[i], boxes[j])
  /\ \A i \in 1..Len(boxes) : Within(boxes[i], whole)
  /\ Sum([i \in 1..Len(boxes) |-> Area(boxes[i])]) = Area(whole)

\* the children of a cell are constructed and their polygons tile its own
ChildrenTile(cell, made) ==
  /\ \A i \in 1..Len(made) : ~made[i].raised
  /\ Tiles([i \in 1..Len(made) |-> polygon(made[i].cell)], polygon(cell))

\* a cell has been returned that is not at the finest resolution of its class
\* and whose identifier is made of digits and capital letters
CoarseCell ==
  /\ pc = "done"
  /\ ~ret.raised
  /\ Alphanumeric(ret.cell.gars_id)
  /\ ret.cell.resolution # Finest(ret.cell.cls)

Between(s, lo, hi) ==
  /\ \A i \in 1..Len(s) : IsDigit(s[i])
  /\ lo <= ParseInt(s) /\ ParseInt(s) <= hi

\* a capital letter from A up to last, I and O left out
LetterUpTo(c, last) == InRange(c, "A", last) /\ c # "I" /\ c # "O"

\* the standard GARS grammar: a band 001-720, a letter A-Q and a letter A-Z
\* without I and O, then optionally a quadrant 1-4, then optionally a keypad
\* digit 1-9, then optionally a sub-index 01-25, with nothing after
StandardGrammar(s) ==
  /\ Len(s) \in {5, 6, 7, 9}
  /\ Between(SubSeq(s, 1, 3), 1, 720)
  /\ LetterUpTo(s[4], "Q")
  /\ LetterUpTo(s[5], "Z")
  /\ Len(s) >= 6 => Between(<<s[6]>>, 1, 4)
  /\ Len(s) >= 7 => Between(<<s[7]>>, 1, 9)
  /\ Len(s) = 9 => Between(SubSeq(s, 8, 9), 1, 25)

\* the ED-GARS grammar: D, a band 01-60, two letters up to BK, then
\* optionally a quadrant 1-4, then optionally a keypad digit 1-9
ExtendedGrammar(s) ==
  /\ Len(s) \in {5, 6, 7}
  /\ s[1] = "D"
  /\ Between(SubSeq(s, 2, 3), 1, 60)
  /\ \/ s[4] = "A" /\ LetterUpTo(s[5], "V")
     \/ s[4] = "B" /\ LetterUpTo(s[5], "K")
  /\ Len(s) >= 6 => Between(<<s[6]>>, 1, 4)
  /\ Len(s) = 7 => Between(<<s[7]>>, 1, 9)

\* the GED-GARS grammar: GD, a band 1-6, a letter A-C, then optionally a
\* quadrant 1-4
GiantGrammar(s) ==
  /\ Len(s) \in {4, 5}
  /\ s[1] = "G" /\ s[2] = "D"
  /\ Between(<<s[3]>>, 1, 6)
  /\ InRange(s[4], "A", "C")
  /\ Len(s) = 5 => Between(<<s[5]>>, 1, 4)

Grammar(cls, s) ==
  CASE cls = "GARSGrid" -> StandardGrammar(s)
    [] cls = "EDGARSGrid" -> ExtendedGrammar(s)
    [] cls = "GEDGARSGrid" -> GiantGrammar(s)

\* the resolution an identifier's length encodes
ResolutionOfLength(cls, resolution, length) ==
  /\ resolution \in VALID_RESOLUTIONS(cls)
  /\ Width(cls, resolution) = length

\* C6: for every valid identifier of each class, constructing a cell from it
\* without max_resolution succeeds, and the cell of every accepted identifier
\* made of digits and capital letters has that identifier as its string form
\* and the resolution its length encodes (GARS 5 -> 30, 6 -> 15, 7 -> 5,
\* 9 -> 1; EDGARS 5 -> 6, 6 -> 3, 7 -> 1; GEDGARS 4 -> 60, 5 -> 30).
C6_IdentifierRoundTrip ==
  (Constructed /\ call.max_resolution = None)
    => /\ Grammar(call.cls, call.gars_id) => ~ret.raised
       /\ (~ret.raised /\ Alphanumeric(call.gars_id))
            => /\ ret.cell.gars_id = call.gars_id
               /\ ResolutionOfLength(call.cls, ret.cell.resolution,
                                     Len(call.gars_id))

\* a valid 1-minute identifier, nine characters long, has been constructed
C6_Witness ==
  /\ Constructed
  /\ call.max_resolution = None
  /\ call.cls = "GARSGrid"
  /\ Grammar(call.cls, call.gars_id)
  /\ Len(call.gars_id) = 9
  /\ ~ret.raised
  /\ ret.cell.resolution = 1

\* C8: GARSGrid accepts exactly the standard grammar: construction succeeds
\* if and only if the identifier is of that grammar, and every other string
\* raises a ValueError and no cell is made.
C8_ExactGrammar ==
  (Constructed /\ call.cls = "GARSGrid" /\ call.max_resolution = None)
    => /\ ~ret.raised <=> StandardGrammar(call.gars_id)
       /\ ret.raised => ret.cell = None

(***************************************************************************)
(* C7                                                                      *)
(***************************************************************************)
\* the constructor has run with a valid max_resolution
ConstructedAt(resolution) ==
  /\ Constructed
  /\ call.max_resolution = <<resolution>>
  /\ validate_resolution(call.cls, resolution)

\* the construction from the prefix of the width of a resolution alone
FromPrefix(resolution) ==
  New(call.cls, Prefix(call.gars_id, Width(call.cls, resolution)), None)

C9_QuadrantDigitRejected ==
  (/\ Constructed
   /\ call.cls = "EDGARSGrid"
   /\ call.max_resolution = None
   /\ Len(call.gars_id) >= 6
   /\ ~InRange(call.gars_id[6], "1", "4"))
    => ret.raised

\* the band or the letters of an ED-GARS string the pattern matches are out
\* of range
ExtendedOutOfRange(m) ==
  /\ m.matched
  /\ \/ ~Between(SubSeq(m.quadrant_6deg, 1, 2), 1, 60)
     \/ m.quadrant_6deg[3] = "B" /\ Ord(m.quadrant_6deg[4]) > Ord("K")

\* the band of a GED-GARS string the pattern matches is out of range
GiantOutOfRange(m) ==
  /\ m.matched
  /\ ~Between(SubSeq(m.quadrant_60deg, 1, 1), 1, 6)

\* the fields of the string the constructor validates are out of range
OutOfRange ==
  \/ /\ call.cls = "EDGARSGrid"
     /\ ExtendedOutOfRange(
          EDGARS_RE_PATTERN(EDGARS_Truncate(call.gars_id, call.max_resolution)))
  \/ /\ call.cls = "GEDGARSGrid"
     /\ GiantOutOfRange(
          GEDGARS_RE_PATTERN(GEDGARS_Truncate(call.gars_id,
                                              call.max_resolution)))

\* C10: EDGARSGrid raises a ValueError when the pattern matches and the band
\* is outside 01-60 or the first letter is B and the second is after K;
\* GEDGARSGrid raises a ValueError when the pattern matches and the band
\* digit is outside 1-6; no cell is constructed.
C10_OutOfRangeRejected ==
  (Constructed /\ OutOfRange) => ret.raised /\ ret.cell = None

\* an ED-GARS string the pattern matches, with letters after BK, was rejected
C10_Witness ==
  /\ Constructed
  /\ call.cls = "EDGARSGrid"
  /\ OutOfRange
  /\ Between(SubSeq(call.gars_id, 2, 3), 1, 60)
  /\ ret.raised

(***************************************************************************)
(* C11: resolutions outside a class's set                                  *)
(***************************************************************************)
\* the resolutions the documentation gives for each class
DocumentedResolutions(cls) ==
  CASE cls = "GARSGrid" -> {1, 5, 15, 30}
    [] cls = "EDGARSGrid" -> {1, 3, 6}
    [] cls = "GEDGARSGrid" -> {30, 60}

\* C11: from_latlon with a resolution outside the class's documented set
\* raises ValueError and returns no cell, and the constructor with a
\* max_resolution outside that set raises ValueError whatever the identifier,
\* a valid one included.
C11_InvalidResolutionRejected ==
  /\ (Located /\ call.resolution \notin DocumentedResolutions(call.cls))
       => (ret.raised /\ ret.cell = None)
  /\ (Constructed /\ call.max_resolution # None
        /\ call.max_resolution[1] \notin DocumentedResolutions(call.cls))
       => (ret.raised /\ ret.cell = None)

\* a constructor was given a valid identifier and a resolution of another
\* class, and raised
C11_Witness ==
  /\ Constructed
  /\ call.cls = "EDGARSGrid"
  /\ call.max_resolution = <<15>>
  /\ Grammar(call.cls, call.gars_id)
  /\ ~New(call.cls, call.gars_id, None).raised
  /\ ret.raised

(***************************************************************************)
(* C12: the list of a multi geometry                                       *)
(***************************************************************************)
\* a level has been read on the field
Accessed == pc = "idle" /\ access.name # ""

\* a level has been read on the field and the read returned a list
Listed == Accessed /\ ~access.raised

\* part i of a multi geometry as a geometry of its own
PartOf(geom, i) == [geom_type |-> "Polygon", geoms |-> <<geom.geoms[i]>>]

\* the cells a level gives for part i alone (none when the read raises)
OwnCells(name, geom, i) == ToSet(Level(name, GARSField(PartOf(geom, i))).value)

\* the list has no identifier twice and ascends by identifier
StrictlyAscending(list) ==
  \A i \in 1..(Len(list) - 1) : StrLess(list[i], list[i + 1])

\* C12: a list returned by a level of a field over a multi geometry is
\* strictly ascending by identifier (so no identifier occurs twice) and
\* holds exactly the cells that the level gives for the parts, each
\* enumerated on its own.
C12_CompositeDedupSort ==
  (Listed /\ IsMulti(field.bounding_geom))
    => /\ StrictlyAscending(access.value)
       /\ ToSet(access.value)
            = UNION {OwnCells(access.name, field.bounding_geom, i) :
                       i \in 1..Len(field.bounding_geom.geoms)}

\* the same, of a read that built the list: the cache was empty before it
C12_FirstRead ==
  [][(/\ access'.name # ""
      /\ ~access'.raised
      /\ field[access'.name] = None
      /\ IsMulti(field.bounding_geom))
       => /\ StrictlyAscending(access'.value)
          /\ ToSet(access'.value)
               = UNION {OwnCells(access'.name, field.bounding_geom, i) :
                          i \in 1..Len(field.bounding_geom.geoms)}]_vars

(***************************************************************************)
(* C13: one region, split in parts or whole                                *)
(***************************************************************************)
\* the corner coordinates of the parts on one axis (lo and hi index the box)
Corners(geom, lo, hi) ==
  {geom.geoms[i][lo] : i \in 1..Len(geom.geoms)}
    \cup {geom.geoms[i][hi] : i \in 1..Len(geom.geoms)}

\* twice the corner coordinates and twice the midpoints between them: one
\* coordinate at least in every interval the corners cut the axis into
Probes(S) == {a + b : a \in S, b \in S}

\* the point <<x / 2, y / 2>> lies in some part
Covered(geom, x, y) ==
  \E i \in 1..Len(geom.geoms) :
    /\ 2 * geom.geoms[i][1] <= x /\ x <= 2 * geom.geoms[i][3]
    /\ 2 * geom.geoms[i][2] <= y /\ y <= 2 * geom.geoms[i][4]

\* the parts together are the rectangle of their bounds
FillsBounds(geom) ==
  \A x \in Probes(Corners(geom, 1, 3)) :
    \A y \in Probes(Corners(geom, 2, 4)) : Covered(geom, x, y)

\* the rectangle of the bounds as one simple polygon
Whole(geom) ==
  Box(Bounds(geom)[1], Bounds(geom)[2], Bounds(geom)[3], Bounds(geom)[4])

\* a read and a fresh read of another field end alike: both raise, or both
\* return and the lists hold the same cells
SameCells(a, fresh) ==
  /\ a.raised = fresh.raised
  /\ ToSet(a.value) = ToSet(fresh.value)

\* C13: when the parts of a multi geometry together are one rectangle, a
\* level read on the field over the multi geometry gives the same set of
\* cells as that level of a field over the rectangle as a single polygon.
C13_RepartitioningInvariance ==
  (Accessed /\ IsMulti(field.bounding_geom) /\ FillsBounds(field.bounding_geom))
    => SameCells(access,
                 Level(access.name, GARSField(Whole(field.bounding_geom))))

\* no part of the geometry starts on the 180th meridian or east of it
StartsWestOf180(geom) ==
  \A i \in 1..Len(geom.geoms) : geom.geoms[i][1] < 180 * Scale

\* the same, of the multi geometries whose every part starts west of 180
C13_WestOf180 ==
  (/\ Accessed
   /\ IsMulti(field.bounding_geom)
   /\ FillsBounds(field.bounding_geom)
   /\ StartsWestOf180(field.bounding_geom))
    => SameCells(access,
                 Level(access.name, GARSField(Whole(field.bounding_geom))))

\* two boxes that share an edge on a cell line were read as a multi geometry
C13_Adjacent ==
  /\ Listed
  /\ field.bounding_geom = MultiPolygon(<<<<-1, 0, 0, 1>>, <<0, 0, 1, 1>>>>)
  /\ access.name = "_gars_1min"
  /\ Len(access.value) > 1

(***************************************************************************)
(* C14, C15: regions at the edge of the longitudes                         *)
(***************************************************************************)
\* C14: a read of a level of a field returns a list and raises no error,
\* whatever the region, one whose minimum longitude is 180 included.
C14_NeverFails == Accessed => ~access.raised

\* the interval [-180, 180) of longitudes, in units
InLongitudes(x) == -180 * Scale <= x /\ x < 180 * Scale

\* C15: the minimum and the maximum longitude that _get_bounds hands to the
\* range computations of a field both lie in [-180, 180).
C15_BoundsClamped ==
  pc = "idle"
    => /\ InLongitudes(_get_bounds(field)[1])
       /\ InLongitudes(_get_bounds(field)[3])

\* the same, of the maximum alone
C15_MaximumClamped == pc = "idle" => InLongitudes(_get_bounds(field)[3])

(***************************************************************************)
(* C16: the caches of a field                                              *)
(***************************************************************************)
\* a read ends as a read of a fresh field does: both raise, or both return
\* lists of the same contents
SameList(a, fresh) ==
  /\ a.raised = fresh.raised
  /\ a.value = fresh.value

\* the last read of the field ended as that level of a fresh field over the
\* same geometry ends, and a list it returned is the one the cache holds
AsFresh ==
  /\ SameList(access, Level(access.name, GARSField(field.bounding_geom)))
  /\ ~access.raised => field[access.name] = <<access.value>>

\* C16: every read of a level of a field, the first and each later one,
\* whatever levels were read in between, returns the list held in the
\* level's cache, and its contents are those a fresh field over the same
\* region returns for the level.
C16_CachedAndDeterministic == Accessed => AsFresh

\* the same, of the geometries whose every part starts west of 180
C16_WestOf180 ==
  (Accessed /\ StartsWestOf180(field.bounding_geom)) => AsFresh

\* a later read of a level returns the list its cache held before the read,
\* and leaves every cache as it was
C16_LaterReadsFromCache ==
  [][(access'.name # "" /\ field[access'.name] # None)
       => /\ ~access'.raised
          /\ <<access'.value>> = field[access'.name]
          /\ field' = field]_vars

(***************************************************************************)
(* C17: equality, order and hash of cells                                  *)
(***************************************************************************)
\* the cells of the sampled heads and tails, as their constructors return them
SampleCells ==
  UNION {{New(cls, id, None).cell :
            id \in {i \in {h \o t : h \in Heads(cls), t \in Tails(cls)} :
                      ~New(cls, i, None).raised}} :
           cls \in Classes}

\* s comes before t in the lexicographic order of code points: at the first
\* position where they differ s has the smaller character, or s ends there
Lexicographic(s, t) ==
  \E k \in 1..Len(t) :
    /\ k <= Len(s) + 1
    /\ \A i \in 1..(k - 1) : s[i] = t[i]
    /\ k = Len(s) + 1 \/ Ord(s[k]) < Ord(t[k])

\* a and b compare as their identifiers do
ByIdentifier(a, b) ==
  /\ __eq__(a, b) <=> a.gars_id = b.gars_id
  /\ __lt__(a, b) <=> Lexicographic(a.gars_id, b.gars_id)
  /\ __eq__(a, b) => __hash__(a) = __hash__(b)

\* C17: for the cell a call returned and every cell of any class, in either
\* order, the two are equal exactly when their identifiers are equal, one is
\* less than the other exactly when its identifier is lexicographically
\* smaller, and equal cells have equal hashes.
C17_IdentifierOnly ==
  (pc = "done" /\ ~ret.raised)
    => \A b \in SampleCells : ByIdentifier(ret.cell, b) /\ ByIdentifier(b, ret.cell)

\* a returned cell whose polygon has been computed stands beside a cell of
\* the same identifier that has none, and beside a cell of another class
C17_Witness ==
  /\ pc = "done"
  /\ ~ret.raised
  /\ ret.cell._polygon # None
  /\ \E b \in SampleCells :
       b.gars_id = ret.cell.gars_id /\ b # ret.cell /\ __eq__(ret.cell, b)
  /\ \E b \in SampleCells : b.cls # ret.cell.cls /\ __lt__(b, ret.cell)

(***************************************************************************)
(* C18: UTM zone codes                                                     *)
(***************************************************************************)
\* utm_epsg of the returned cell has been read
UtmRead == pc = "done" /\ ~ret.raised /\ utm.read

\* twice the centroid of the returned cell's polygon
Centroid2 ==
  <<polygon(ret.cell)[1] + polygon(ret.cell)[3],
    polygon(ret.cell)[2] + polygon(ret.cell)[4]>>

\* the lookup was consulted once in all, with the centroid, and the value
\* returned is the code it answered
LookedUp ==
  /\ ~utm.raised
  /\ Len(utm.queries) = 1
  /\ utm.queries[1].point = Centroid2
  /\ utm.value = <<"E", "P", "S", "G", ":">> \o Str(utm.queries[1].code)

\* C18: utm_epsg of a GARSGrid or EDGARSGrid cell is EPSG:32761 when the
\* latitude of the centroid of its polygon is -80 or less and EPSG:32661 when
\* it is 84 or more, in both cases without the lookup being consulted, and
\* otherwise is the code the lookup answers for the centroid; utm_epsg of a
\* GEDGARSGrid cell is None and the lookup is never consulted.
C18_UtmZoneCode ==
  UtmRead =>
    IF ret.cell.cls = "GEDGARSGrid"
      THEN ~utm.raised /\ utm.value = None /\ utm.queries = <<>>
    ELSE IF Centroid2[2] <= -160 * Scale
      THEN /\ ~utm.raised
           /\ utm.value = <<"E", "P", "S", "G", ":", "3", "2", "7", "6", "1">>
           /\ utm.queries = <<>>
    ELSE IF Centroid2[2] >= 168 * Scale
      THEN /\ ~utm.raised
           /\ utm.value = <<"E", "P", "S", "G", ":", "3", "2", "6", "6", "1">>
           /\ utm.queries = <<>>
    ELSE LookedUp

\* utm_epsg was read on the EDGARS cell from 84 to 90 north, whose centroid
\* lies in the northern polar region
C18_Witness ==
  /\ UtmRead
  /\ ret.cell.gars_id = <<"D", "6", "0", "B", "K">>
  /\ utm.value = <<"E", "P", "S", "G", ":", "3", "2", "6", "6", "1">>
  /\ utm.queries = <<>>

(***************************************************************************)
(* C19, C20: the documented scenarios                                      *)
(***************************************************************************)
\* the box of 720HN2604 as documented: its south west corner at longitude
\* 179.5 and 28 minutes, latitude 0 and 24 minutes, its side one minute
Box_720HN2604 ==
  <<179 * Scale + 30 * MinUnits + 28 * MinUnits, 24 * MinUnits,
    179 * Scale + 30 * MinUnits + 29 * MinUnits, 25 * MinUnits>>

\* the point <<longitude, latitude>> lies strictly inside the box
StrictlyInside(x, y, b) == b[1] < x /\ x < b[3] /\ b[2] < y /\ y < b[4]

\* C19: GARSGrid("720HN2604") is a cell of resolution 1 whose polygon is the
\* one-minute box with its south west corner at longitude 179.5 + 28/60 and
\* latitude 24/60, and GARSGrid.from_latlon at resolution 1 of a point
\* strictly inside that box returns 720HN2604.
C19_StandardScenario ==
  /\ (/\ Constructed
      /\ call.cls = "GARSGrid"
      /\ call.gars_id = <<"7", "2", "0", "H", "N", "2", "6", "0", "4">>
      /\ call.max_resolution = None)
       => /\ ~ret.raised
          /\ ret.cell.resolution = 1
          /\ polygon(ret.cell) = Box_720HN2604
          /\ ret.cell._polygon \in {None, Box_720HN2604}
  /\ (/\ Located
      /\ call.cls = "GARSGrid"
      /\ call.resolution = 1
      /\ StrictlyInside(call.longitude, call.latitude, Box_720HN2604))
       => /\ ~ret.raised
          /\ ret.cell.gars_id = <<"7", "2", "0", "H", "N", "2", "6", "0", "4">>

\* the polygon of GARSGrid("720HN2604") has been read
C19_Witness ==
  /\ Constructed
  /\ call.gars_id = <<"7", "2", "0", "H", "N", "2", "6", "0", "4">>
  /\ call.max_resolution = None
  /\ ~ret.raised
  /\ ret.cell._polygon = Box_720HN2604

\* from_latlon has returned a cell for a point inside the box of 720HN2604
C19_Located ==
  /\ Located
  /\ call.cls = "GARSGrid"
  /\ call.resolution = 1
  /\ StrictlyInside(call.longitude, call.latitude, Box_720HN2604)
  /\ ~ret.raised

\* the identifier documented for the point -89.55, -179.57 at a resolution
Id_D01AA(resolution) ==
  CASE resolution = 1 -> <<"D", "0", "1", "A", "A", "3", "7">>
    [] resolution = 3 -> <<"D", "0", "1", "A", "A", "3">>
    [] resolution = 6 -> <<"D", "0", "1", "A", "A">>

\* C20: EDGARSGrid.from_latlon(-89.55, -179.57, resolution) returns D01AA37
\* at resolution 1, D01AA3 at 3 and D01AA at 6, and the polygon of D01AA37
\* is the one-degree square from (-180, -90) to (-179, -89).
C20_ExtendedScenario ==
  (/\ Located
   /\ call.cls = "EDGARSGrid"
   /\ call.latitude = Hundredths(-8955)
   /\ call.longitude = Hundredths(-17957)
   /\ call.resolution \in {1, 3, 6})
    => /\ ~ret.raised
       /\ ret.cell.gars_id = Id_D01AA(call.resolution)
       /\ call.resolution = 1
            => /\ polygon(ret.cell)
                    = <<-180 * Scale, -90 * Scale, -179 * Scale, -89 * Scale>>
               /\ ret.cell._polygon
                    \in {None, <<-180 * Scale, -90 * Scale,
                                 -179 * Scale, -89 * Scale>>}

\* the polygon of the cell from_latlon returned for the point at resolution 1
\* has been read
C20_Witness ==
  /\ Located
  /\ call.cls = "EDGARSGrid"
  /\ call.latitude = Hundredths(-8955)
  /\ call.longitude = Hundredths(-17957)
  /\ call.resolution = 1
  /\ ~ret.raised
  /\ ret.cell._polygon # None

(***************************************************************************)
(* C21                                                                     *)
(***************************************************************************)
\* what one read of the level gives a single thread
Sequential == Level(shared.name, field)

\* thread t has returned from the property
Returned(t) == pc = "threads" /\ threads[t].pc = "done"

\* C21: whatever the interleaving of two threads that read the same level of
\* the same GARSField, each thread that returns obtains the complete list a
\* read by a single thread returns; none returns an empty or partly filled
\* list for having found the cache no longer None.
C21_ConcurrentAccessSafe ==
  \A t \in Threads :
    Returned(t) /\ ~Sequential.raised =>
      threads[t].returned = <<Sequential.value>>

(***************************************************************************)
(* C22                                                                     *)
(***************************************************************************)
\* the list the attribute of the level refers to
Held(s) == s.heap[s.slot[1]]

\* C22: the attribute of a level goes from None to its final list in one step:
\* once it is not None it is never assigned again, and the list it refers to
\* is never extended or changed, for simple and multi geometries alike.
C22_WriteOnce ==
  [][shared.slot # None =>
       shared'.slot = shared.slot /\ Held(shared') = Held(shared)]_vars

(***************************************************************************)
(* C23                                                                     *)
(***************************************************************************)
\* C23: a read of a level that raises leaves no partial cache: the cache of
\* that level is still None, so that the next read of the level computes
\* again and raises again.
C23_FailureLeavesNoCache ==
  (Accessed /\ access.raised) => field[access.name] = None

(***************************************************************************)
(* C24                                                                     *)
(***************************************************************************)
\* index(pair) = N * position(letter1) + position(letter2)
PairIndex(LETTERS, letter1, letter2) ==
  Len(LETTERS) * Index(LETTERS, letter1) + Index(LETTERS, letter2)

\* the letter pair of an index
PairAt(LETTERS, i) ==
  <<LETTERS[(i \div Len(LETTERS)) + 1], LETTERS[(i % Len(LETTERS)) + 1]>>

\* the letter pairs from one index to another, ascending
PairsBetween(LETTERS, lo, hi) ==
  [k \in 1..(hi - lo + 1) |-> PairAt(LETTERS, lo + k - 1)]

\* the identifiers head + band + pair for the bands and the letter pairs from
\* those of the cell ll to those of the cell ur, band by band
BandsByPairs(head, w, LETTERS, ll, ur) ==
  ProductJoin(
    [k \in 1..(ParseInt(SubSeq(ur, Len(head) + 1, Len(head) + w))
                 - ParseInt(SubSeq(ll, Len(head) + 1, Len(head) + w)) + 1) |->
       head \o Format0(ParseInt(SubSeq(ll, Len(head) + 1, Len(head) + w))
                         + k - 1, w)],
    PairsBetween(LETTERS,
                 PairIndex(LETTERS, ll[Len(head) + w + 1], ll[Len(head) + w + 2]),
                 PairIndex(LETTERS, ur[Len(head) + w + 1], ur[Len(head) + w + 2])))

\* the region of the field is a box inside the world bounds whose maximum
\* longitude is below 180
BoxBelow180 ==
  /\ ~IsMulti(field.bounding_geom)
  /\ -180 * Scale <= Bounds(field.bounding_geom)[1]
  /\ Bounds(field.bounding_geom)[3] < 180 * Scale
  /\ -90 * Scale <= Bounds(field.bounding_geom)[2]
  /\ Bounds(field.bounding_geom)[4] <= 90 * Scale

\* the product the claim describes, of the corners b of the box
CornerProduct(name, b) ==
  IF name = "_gars_30min"
    THEN BandsByPairs(<<>>, 3, GARS_LETTERS,
                      GARS_from_latlon(b[2], b[1], 30).cell.gars_id,
                      GARS_from_latlon(b[4], b[3], 30).cell.gars_id)
  ELSE BandsByPairs(<<"D">>, 2, EDGARS_LETTERS,
                    EDGARS_from_latlon(b[2], b[1], 6).cell.gars_id,
                    EDGARS_from_latlon(b[4], b[3], 6).cell.gars_id)

\* C24: for a box inside the world bounds with maximum longitude below 180,
\* gars_30min and gars_6deg return exactly the product of the longitude bands
\* from that of from_latlon(minimum corner) to that of from_latlon(maximum
\* corner) with the letter pairs between those of the two corners, inclusive.
C24_TopLevelRange ==
  (/\ Accessed
   /\ access.name \in {"_gars_30min", "_gars_6deg"}
   /\ BoxBelow180)
    => /\ ~access.raised
       /\ access.value = CornerProduct(access.name, Bounds(field.bounding_geom))

\* a box whose east and north edges lie on edges of 30 minute cells has been
\* read: the cells beyond those edges are returned, those beyond its west and
\* south edges are not
C24_Witness ==
  /\ Accessed
  /\ access.name = "_gars_30min"
  /\ field.bounding_geom = Box(-Scale, -(Scale \div 2), 0, Scale \div 2)
  /\ <<"3", "6", "1", "H", "P">> \in ToSet(access.value)
  /\ <<"3", "5", "8", "H", "L">> \notin ToSet(access.value)
  /\ Len(access.value) = 9

(***************************************************************************)
(* C25                                                                     *)
(***************************************************************************)
\* the call that has run is _get_lat_letter_range
Ranged == pc = "done" /\ call.op = "_get_lat_letter_range"

\* C25: for lower left and upper right letter pairs with index(ll) <=
\* index(ur), where index(pair) = N * position(letter1) + position(letter2)
\* in the alphabet of N letters of the grid, _get_lat_letter_range returns
\* exactly the pairs with index from index(ll) to index(ur), each once and in
\* ascending order of index, whether the first letters are equal or differ.
C25_LatLetterRange ==
  Ranged =>
    ret.lat_letter_range
      = PairsBetween(LettersOf(call.gars_grid),
                     PairIndex(LettersOf(call.gars_grid),
                               call.ll_lat1, call.ll_lat2),
                     PairIndex(LettersOf(call.gars_grid),
                               call.ur_lat1, call.ur_lat2))

\* a range of three segments has been returned: the first letters are two or
\* more apart and the second letter of the lower left pair comes after that
\* of the upper right pair
C25_Witness ==
  /\ Ranged
  /\ Index(LettersOf(call.gars_grid), call.ll_lat1) + 2
       <= Index(LettersOf(call.gars_grid), call.ur_lat1)
  /\ Index(LettersOf(call.gars_grid), call.ll_lat2)
       > Index(LettersOf(call.gars_grid), call.ur_lat2)
  /\ Len(ret.lat_letter_range) > Len(LettersOf(call.gars_grid))

(***************************************************************************)
(* C26                                                                     *)
(***************************************************************************)
\* the resolution a resolution subdivides
Coarser(cls, resolution) ==
  Min({r \in VALID_RESOLUTIONS(cls) : r > resolution})

\* the number of children along a side of the parent
PerSide(cls, resolution) == Coarser(cls, resolution) \div resolution

\* the child of box p in a column counted from the west and a row counted from
\* the north, children of the given side
SubBox(p, side, column, row) ==
  <<p[1] + column * side, p[4] - (row + 1) * side,
    p[1] + (column + 1) * side, p[4] - row * side>>

\* the cell of index k among n by n children has the polygon of column
\* (k - 1) mod n and row (k - 1) div n of its parent
PolygonAsNumbered(cell, n, k, parent) ==
  /\ ~parent.raised
  /\ 1 <= k /\ k <= n * n
  /\ polygon(cell)
       = SubBox(polygon(parent.cell), Side(cell.cls, cell.resolution),
                (k - 1) % n, (k - 1) \div n)

\* a cell below the coarsest resolution of its class has been returned, its
\* identifier made of digits and capital letters and its last index not above
\* the number of children
ChildCell ==
  /\ pc = "done"
  /\ ~ret.raised
  /\ Alphanumeric(ret.cell.gars_id)
  /\ ret.cell.resolution # Max(VALID_RESOLUTIONS(ret.cell.cls))
  /\ ParseInt(SubSeq(ret.cell.gars_id,
                     Width(ret.cell.cls,
                           Coarser(ret.cell.cls, ret.cell.resolution)) + 1,
                     Len(ret.cell.gars_id)))
       <= PerSide(ret.cell.cls, ret.cell.resolution)
            * PerSide(ret.cell.cls, ret.cell.resolution)

\* the latitude whose row a latitude falls in: the pole falls in the row
\* below it
RowLatitude(latitude) ==
  IF latitude = 90 * Scale THEN 90 * Scale - 1 ELSE latitude

\* the index of the child of box p, n by n children of the given side, that
\* holds the point: columns from the west, rows from the north
IndexOfPoint(p, n, side, latitude, longitude) ==
  (n - 1 - ((RowLatitude(latitude) - p[2]) \div side)) * n
    + ((longitude - p[1]) \div side) + 1

\* from_latlon at a resolution gives the identifier of the next coarser
\* resolution followed by the index of the column and row of the point
LocatedAsNumbered(cls, latitude, longitude, resolution, made, parent) ==
  /\ ~made.raised
  /\ ~parent.raised
  /\ made.cell.gars_id
       = parent.cell.gars_id
           \o Format0(IndexOfPoint(polygon(parent.cell),
                                   PerSide(cls, resolution),
                                   Side(cls, resolution), latitude, longitude),
                      Width(cls, resolution)
                        - Width(cls, Coarser(cls, resolution)))

\* from_latlon has returned for a point in the world bounds at a resolution
\* below the coarsest
LocatedChild ==
  /\ Located
  /\ LatitudeAndResolutionValid
  /\ -180 * Scale <= call.longitude /\ call.longitude < 180 * Scale
  /\ call.resolution # Max(VALID_RESOLUTIONS(call.cls))

\* C26: at every subdivision of every class (2 by 2 quadrants, 3 by 3 keypad
\* digits, 5 by 5 one-minute indices) the child of index k occupies column
\* (k - 1) mod n from the west and row (k - 1) div n from the north of its
\* parent, in the polygon of an identifier and in the identifier from_latlon
\* builds; index 1 is the north west child and n * n the south east child.
C26_NumberingConvention ==
  /\ ChildCell =>
       PolygonAsNumbered(
         ret.cell, PerSide(ret.cell.cls, ret.cell.resolution),
         ParseInt(SubSeq(ret.cell.gars_id,
                         Width(ret.cell.cls,
                               Coarser(ret.cell.cls, ret.cell.resolution)) + 1,
                         Len(ret.cell.gars_id))),
         New(ret.cell.cls,
             Prefix(ret.cell.gars_id,
                    Width(ret.cell.cls,
                          Coarser(ret.cell.cls, ret.cell.resolution))),
             None))
  /\ LocatedChild =>
       LocatedAsNumbered(call.cls, call.latitude, call.longitude,
                         call.resolution, ret,
                         from_latlon(call.cls, call.latitude, call.longitude,
                                     Coarser(call.cls, call.resolution)))

\* the one-minute cell of index 25 has been constructed, the south east child
\* of its parent
C26_Witness ==
  /\ Constructed
  /\ ChildCell
  /\ ret.cell.cls = "GARSGrid"
  /\ ret.cell.resolution = 1
  /\ ret.cell.quadrant_1min = <<"2", "5">>
  /\ polygon(ret.cell)[3] = polygon(New("GARSGrid", Prefix(ret.cell.gars_id, 7),
                                        None).cell)[3]
  /\ polygon(ret.cell)[2] = polygon(New("GARSGrid", Prefix(ret.cell.gars_id, 7),
                                        None).cell)[2]

\* from_latlon has returned a one-minute cell in the north west corner of its
\* five-minute cell: index 01
C26_Located ==
  /\ LocatedChild
  /\ call.cls = "GARSGrid"
  /\ call.resolution = 1
  /\ ~ret.raised
  /\ ret.cell.quadrant_1min = <<"0", "1">>

(***************************************************************************)
(* C27                                                                     *)
(***************************************************************************)
\* the number of characters of the identifiers of a level
IdWidth(name) ==
  CASE name = "_gars_60deg" -> Width("GEDGARSGrid", 60)
    [] name = "_gars_30deg" -> Width("GEDGARSGrid", 30)
    [] name = "_gars_6deg" -> Width("EDGARSGrid", 6)
    [] name = "_gars_3deg" -> Width("EDGARSGrid", 3)
    [] name = "_gars_1deg" -> Width("EDGARSGrid", 1)
    [] name = "_gars_30min" -> Width("GARSGrid", 30)
    [] name = "_gars_15min" -> Width("GARSGrid", 15)
    [] name = "_gars_5min" -> Width("GARSGrid", 5)
    [] name = "_gars_1min" -> Width("GARSGrid", 1)

\* the read of the coarser level returns, and the identifiers of the finer
\* list cut to w characters are the identifiers of the coarser list
ParentsReturned(finer, coarser, w) ==
  /\ ~coarser.raised
  /\ {Prefix(finer[i], w) : i \in 1..Len(finer)} = ToSet(coarser.value)

\* a level that refines another has been read and the read returned a list
ListedFiner == Listed /\ LevelInfo(access.name).parent # ""

\* C27: for every region, simple or multi, and every level that refines
\* another, the identifiers a read of the finer level returns, cut to the
\* width of the coarser level, are exactly the identifiers a read of the
\* coarser level returns: every cell has its parent returned, and every
\* parent has a child returned.
C27_ParentChildConsistent ==
  ListedFiner =>
    ParentsReturned(access.value,
                    Level(LevelInfo(access.name).parent, field),
                    IdWidth(LevelInfo(access.name).parent))

\* the same, of the geometries whose every part starts west of 180
C27_WestOf180 ==
  (ListedFiner /\ StartsWestOf180(field.bounding_geom)) =>
    ParentsReturned(access.value,
                    Level(LevelInfo(access.name).parent, field),
                    IdWidth(LevelInfo(access.name).parent))

(***************************************************************************)
(* C28                                                                     *)
(***************************************************************************)
\* a level of a field over a simple region has been read and returned a list
ListedSimple == Listed /\ ~IsMulti(field.bounding_geom)

AllConstructed(cls, top) ==
  /\ ~top.raised
  /\ \A k \in 1..Len(top.ids) : ~New(cls, top.ids[k], None).raised

\* C29: for every simple region whose bounds lie within latitude [-90, 90]
\* and longitude [-180, 180), every candidate identifier that gars_6deg and
\* gars_30min make from the longitude band range and the latitude letter
\* range is a valid identifier of its class, so that the except ValueError
\* branch of the loop is never taken.
C29_NoCandidateSkipped ==
  (/\ Accessed
   /\ access.name \in {"_gars_6deg", "_gars_30min"}
   /\ BoxBelow180)
    => AllConstructed(LevelInfo(access.name).cls,
                      TopCandidates(access.name, field))

\* gars_6deg has been read on a box at the north pole: the last letter pair
\* of its candidates is BK
C29_Witness ==
  /\ Accessed
  /\ access.name = "_gars_6deg"
  /\ field.bounding_geom = Box(0, 90 * Scale - 1, 1, 90 * Scale)
  /\ access.value = <<<<"D", "3", "1", "B", "K">>>>
  /\ TopCandidates("_gars_6deg", field).ids = access.value

(***************************************************************************)
(* C30                                                                     *)
(***************************************************************************)
\* a level and the levels it refines, directly or not
RECURSIVE UpTo(_)
UpTo(name) ==
  IF name = "" THEN {} ELSE {name} \cup UpTo(LevelInfo(name).parent)

\* the caches a read of a level of self fills: for a simple region those of
\* the level and of the levels it refines, for a multi geometry that of the
\* level alone
Fills(name, self) ==
  IF IsMulti(self.bounding_geom) THEN {name} ELSE UpTo(name)

\* from self to after, a read of the level has filled those caches, left the
\* other caches and the region as they were, and changed no cache that held
\* a list
Frame(name, self, after) ==
  /\ after.bounding_geom = self.bounding_geom
  /\ \A l \in ToSet(Levels) :
       /\ l \in Fills(name, self) => after[l] # None
       /\ l \notin Fills(name, self) => after[l] = self[l]
       /\ self[l] # None => after[l] = self[l]

\* C30: on a simple region a read of a level fills the caches of that level
\* and of the coarser levels of its grid only (gars_1min those of 1min, 5min,
\* 15min and 30min, gars_1deg those of 1deg, 3deg and 6deg, gars_30deg those
\* of 30deg and 60deg) and leaves every other cache and the region unchanged;
\* on a multi geometry it fills the cache of the level read only; and no read
\* changes a cache that was already filled.
C30_Frame == [][reads' # reads => Frame(access'.name, field, field')]_vars

\* gars_1min has been read first on a box in four 30 minute cells: the four
\* caches of GARSGrid hold lists, the five others are None
C30_Witness ==
  /\ Accessed
  /\ reads = 1
  /\ access.name = "_gars_1min"
  /\ field.bounding_geom = Box(-1, -1, 1, 1)
  /\ \A l \in ToSet(Levels) : field[l] # None <=> l \in UpTo("_gars_1min")
  /\ Len(field["_gars_30min"][1]) = 4

\* gars_1min has been read first on a multi geometry: only its cache is filled
C30_Composite ==
  /\ Accessed
  /\ reads = 1
  /\ access.name = "_gars_1min"
  /\ IsMulti(field.bounding_geom)
  /\ \A l \in ToSet(Levels) : field[l] # None <=> l = "_gars_1min"

=============================================================================
